---------------------------- MODULE Spec2Model ----------------------------
(***************************************************************************)
(* Model of the MX Keypad driver (lib/src/devices/mx_keypad_device.cpp):   *)
(* the image packetizer with its buffer pool, the input-report decoder of  *)
(* the monitoring thread, and the animation workers that share the hidraw  *)
(* channel with the caller's one-shot image writes.                        *)
(*                                                                         *)
(* Seven specifications share the variables:                               *)
(*   SpecPkt      the packetizer applied to bounded inputs                 *)
(*   SpecPool     two threads packetizing on the shared buffer pool        *)
(*   SpecDecoder  the monitoring thread decoding raw reports               *)
(*   SpecDelivery the monitoring thread delivering events to the callback  *)
(*   Spec         the session: caller operations and animation workers     *)
(*   SpecAnim     animations of several frames on two keys and the screen  *)
(*   SpecAnimFair animations on one key and the screen, fair scheduling    *)
(***************************************************************************)
EXTENDS Integers, Sequences, FiniteSets, TLC

VARIABLES
  \* ---- packetizer (PacketBufferPool, generate*ImagePackets) ----
  pool,             \* packet_pool.pool: POOL_SIZE buffers of MAX_PACKET_SIZE bytes
  next_free,        \* packet_pool.next_free, kept modulo POOL_SIZE
  pktCall,          \* the packetizer call made: its arguments, or NoCall
  pktResult,        \* the vector of packets that call returned
  gen               \* per packetizing thread: its position and locals inside
                    \* generateImagePackets / generateRawImagePackets

pktVars == <<pool, next_free, pktCall, pktResult, gen>>

VARIABLES
  \* ---- monitoring thread and input decoder ----
  event_callback_,  \* TRUE iff a callback is registered (non-empty std::function)
  monitoring,       \* impl_->monitoring
  monitor_thread,   \* impl_->monitor_thread: "none" (not joinable), "open" and
                    \* "loop", "check" (running: before open(), at the loop
                    \* condition and poll, after the decoder pass), "emit",
                    \* "callback", "finish" (inside the decoder pass: about
                    \* to create an event, inside the callback, after the
                    \* last callback),
                    \* "exited" (the lambda returned, the thread is still joinable)
  monCaller,        \* the caller in stopMonitoring and in the destructor: "idle",
                    \* "joining", "stop_return" (stopMonitoring has returned),
                    \* "destroy_join", "destroy_close", "closed", "destroyed"
  aborted,          \* std::terminate was called
  pressed_buttons,  \* impl_->pressed_buttons
  last_p_button,    \* impl_->last_p_button
  lastReport,       \* the report the last decoder pass read, or NoReport
  prevPressed,      \* pressed_buttons before that pass
  prevLastP,        \* last_p_button before that pass
  events,           \* the events that pass delivered to the callback, in order
  stamps,           \* stamps[i] is events[i].timestamp
  pending,          \* the events of that pass still to be created and delivered
  steady_clock,     \* std::chrono::steady_clock, in milliseconds
  last_timestamp    \* the timestamp of the event delivered last

monVars == <<event_callback_, monitoring, monitor_thread, monCaller, aborted,
             pressed_buttons, last_p_button, lastReport, prevPressed, prevLastP,
             events, stamps, pending, steady_clock, last_timestamp>>

VARIABLES
  \* ---- session: caller operations, animation workers, the hidraw channel ----
  hidraw_path_empty, \* impl_->hidraw_path.empty(), fixed by the constructor
  hidraw_fd,        \* impl_->hidraw_fd: -1, or the descriptor open() returned
  initialized,      \* impl_->initialized
  fdNonblock,       \* O_NONBLOCK in the file status flags of hidraw_fd
  animations,       \* impl_->animations: key -> slot of its KeyAnimation, 0 = no entry
  screen_animation, \* impl_->screen_animation: slot of its KeyAnimation, 0 = null
  task,             \* the KeyAnimation objects, by slot: NoTask or its fields
  wpc,              \* position of the animation thread of each slot
  wtarget,          \* the target captured by the thread's lambda (keyIndex / screen)
  tx,               \* per thread: its position and locals inside setKeyImage /
                    \* setRawImage, from fcntl(F_GETFL) to the return
  cpc,              \* position of the caller
  cop,              \* the operation the caller is in, with its arguments and locals
  channel,          \* the device side of the channel: the thread whose
                    \* unfinished packet sequence arrived last, and whether a
                    \* packet arrived inside another update's packet sequence
  writeFailures     \* writes the device has rejected or cut short so far

sessVars == <<hidraw_path_empty, hidraw_fd, initialized, fdNonblock, animations,
              screen_animation, task, wpc, wtarget, tx, cpc, cop, channel,
              writeFailures>>

vars == <<pool, next_free, pktCall, pktResult, gen,
          event_callback_, monitoring, monitor_thread, monCaller, aborted,
          pressed_buttons, last_p_button, lastReport, prevPressed, prevLastP,
          events, stamps, pending, steady_clock, last_timestamp,
          hidraw_path_empty, hidraw_fd, initialized, fdNonblock, animations,
          screen_animation, task, wpc, wtarget, tx, cpc, cop, channel,
          writeFailures>>

-----------------------------------------------------------------------------
(* Program constants *)

MAX_PACKET_SIZE == 4095
LCD_SIZE == 118
POOL_SIZE == 16
PACKET1_HEADER == 20
SUBSEQUENT_HEADER == 5
SCREEN_WIDTH == 434
SCREEN_HEIGHT == 434
KEY_SIZE == 118
GAP_SIZE == 40

PACKET_BASE_HEADER == <<20, 255, 2, 43>>          \* 0x14 0xff 0x02 0x2b
PACKET1_GEOMETRY == <<1, 0, 1, 0, 0, 0>>

-----------------------------------------------------------------------------
(* Byte arithmetic *)

Min(a, b) == IF a < b THEN a ELSE b

RECURSIVE BitOr(_, _)
BitOr(a, b) ==
  IF a = 0 THEN b
  ELSE IF b = 0 THEN a
  ELSE (IF a % 2 = 1 \/ b % 2 = 1 THEN 1 ELSE 0) + 2 * BitOr(a \div 2, b \div 2)

RECURSIVE BitAnd(_, _)
BitAnd(a, b) ==
  IF a = 0 \/ b = 0 THEN 0
  ELSE (IF a % 2 = 1 /\ b % 2 = 1 THEN 1 ELSE 0) + 2 * BitAnd(a \div 2, b \div 2)

\* (v >> 8) & 0xff
HiByte(v) == (v \div 256) % 256
\* v & 0xff
LoByte(v) == v % 256

\* uint8_t value = index | 0b00100000; the flags are or-ed into the uint8_t
generateWritePacketByte_NoLastFlag(index, isFirst, isLast) ==
  LET value == BitOr(index, 32) % 256
      v1 == IF isFirst THEN BitOr(value, 128) ELSE value
  IN  v1

generateWritePacketByte(index, isFirst, isLast) ==
  LET value == BitOr(index, 32) % 256
      v1 == IF isFirst THEN BitOr(value, 128) ELSE value
      v2 == IF isLast THEN BitOr(v1, 64) ELSE v1
  IN  v2

-----------------------------------------------------------------------------
(* Buffers.  A buffer is a sequence of MAX_PACKET_SIZE bytes; C offset k is *)
(* index k + 1.                                                             *)

\* memset(buf, 0, MAX_PACKET_SIZE)
Memset_Skipped(buf) == buf

Memset(buf) == [i \in 1..MAX_PACKET_SIZE |-> 0]

\* memcpy(buf + off, src + srcOff, cnt)
Memcpy(buf, off, src, srcOff, cnt) ==
  SubSeq(buf, 1, off) \o SubSeq(src, srcOff + 1, srcOff + cnt)
    \o SubSeq(buf, off + cnt + 1, Len(buf))

\* PacketBufferPool::acquire: index of the buffer handed out
Acquire(nf) == nf % POOL_SIZE

\* PacketBufferPool(): every buffer resized to MAX_PACKET_SIZE (zero-filled)
FreshPool == [b \in 0..(POOL_SIZE - 1) |-> [i \in 1..MAX_PACKET_SIZE |-> 0]]

\* no packetizer call has been made
NoCall == [op |-> "none"]


-----------------------------------------------------------------------------
(* Impl::generateImagePackets *)

\* byteCount of one pass of the chunk loop
ImageChunkBytes_FirstHeaderSize(remainingBytes) ==
  Min(remainingBytes, MAX_PACKET_SIZE - PACKET1_HEADER)

ImageChunkBytes(remainingBytes) ==
  Min(remainingBytes, MAX_PACKET_SIZE - SUBSEQUENT_HEADER)

\* the chunk loop of generateImagePackets ("while (remainingBytes > 0)")
RECURSIVE ImageChunkLoop(_, _, _, _, _)
ImageChunkLoop(jpegData, remainingBytes, currentOffset, part, acc) ==
  IF remainingBytes > 0
  THEN LET byteCount == ImageChunkBytes(remainingBytes)
           idx == Acquire(acc.next_free)
           packet_header ==
             PACKET_BASE_HEADER
               \o <<generateWritePacketByte(part, FALSE, remainingBytes - byteCount = 0)>>
           cleared == Memset(acc.pool[idx])
           withHdr == Memcpy(cleared, 0, packet_header, 0, SUBSEQUENT_HEADER)
           packet == IF byteCount > 0
                     THEN Memcpy(withHdr, SUBSEQUENT_HEADER, jpegData, currentOffset, byteCount)
                     ELSE withHdr
       IN  ImageChunkLoop(jpegData, remainingBytes - byteCount,
                          currentOffset + byteCount, part + 1,
                          [result |-> Append(acc.result, packet),
                           pool |-> [acc.pool EXCEPT ![idx] = packet],
                           next_free |-> (acc.next_free + 1) % POOL_SIZE])
  ELSE acc

\* totalPackets, computed up front for result.reserve
ImageTotalPackets(size) ==
  LET remainingAfterFirst ==
        IF size > MAX_PACKET_SIZE - PACKET1_HEADER
        THEN size - (MAX_PACKET_SIZE - PACKET1_HEADER) ELSE 0
  IN  IF remainingAfterFirst > 0
      THEN 1 + (remainingAfterFirst + (MAX_PACKET_SIZE - SUBSEQUENT_HEADER) - 1)
                 \div (MAX_PACKET_SIZE - SUBSEQUENT_HEADER)
      ELSE 1

\* "int row = keyIndex / 3; int col = keyIndex % 3;"
KeyRow_AsColumn(keyIndex) == keyIndex % 3

KeyRow(keyIndex) == keyIndex \div 3

KeyColumn_AsRow(keyIndex) == keyIndex \div 3

KeyColumn(keyIndex) == keyIndex % 3

\* packet1_header of generateImagePackets; x and y are uint16_t
ImagePacket1Header(keyIndex, size) ==
  LET row == KeyRow(keyIndex)
      col == KeyColumn(keyIndex)
      x == (23 + col * (118 + 40)) % 65536
      y == (6 + row * (118 + 40)) % 65536
      h0 == [i \in 1..PACKET1_HEADER |-> 0]
      h1 == Memcpy(h0, 0, PACKET_BASE_HEADER, 0, 4)
      h2 == Memcpy(h1, 4,
                   <<generateWritePacketByte(1, TRUE,
                        size <= MAX_PACKET_SIZE - PACKET1_HEADER)>>, 0, 1)
      h3 == Memcpy(h2, 5, PACKET1_GEOMETRY, 0, 6)
      h4 == Memcpy(h3, 9, <<HiByte(x), LoByte(x), HiByte(y), LoByte(y)>>, 0, 4)
      h5 == Memcpy(h4, 13, <<HiByte(LCD_SIZE), LoByte(LCD_SIZE),
                             HiByte(LCD_SIZE), LoByte(LCD_SIZE)>>, 0, 4)
  IN  Memcpy(h5, 18, <<HiByte(size), LoByte(size)>>, 0, 2)

\* generateImagePackets(keyIndex, jpegData), run on pool p0 with next_free nf0:
\* the packets returned and the pool it leaves behind
generateImagePackets(keyIndex, jpegData, p0, nf0) ==
  LET size == Len(jpegData)
      idx == Acquire(nf0)
      cleared == Memset(p0[idx])
      withHdr == Memcpy(cleared, 0, ImagePacket1Header(keyIndex, size), 0, PACKET1_HEADER)
      byteCount1 == Min(size, MAX_PACKET_SIZE - PACKET1_HEADER)
      packet1 == IF byteCount1 > 0
                 THEN Memcpy(withHdr, PACKET1_HEADER, jpegData, 0, byteCount1)
                 ELSE withHdr
  IN  ImageChunkLoop(jpegData, size - byteCount1, byteCount1, 2,
                     [result |-> <<packet1>>,
                      pool |-> [p0 EXCEPT ![idx] = packet1],
                      next_free |-> (nf0 + 1) % POOL_SIZE])


-----------------------------------------------------------------------------
(* Impl::generateRawImagePackets *)

\* byteCount of one pass of the chunk loop
RawChunkBytes(remainingBytes) ==
  Min(remainingBytes, MAX_PACKET_SIZE - SUBSEQUENT_HEADER)

\* the chunk loop of generateRawImagePackets
RECURSIVE RawChunkLoop(_, _, _, _, _)
RawChunkLoop(jpegData, remainingBytes, currentOffset, part, acc) ==
  IF remainingBytes > 0
  THEN LET byteCount == RawChunkBytes(remainingBytes)
           idx == Acquire(acc.next_free)
           packet_header ==
             PACKET_BASE_HEADER
               \o <<generateWritePacketByte(part, FALSE, remainingBytes - byteCount = 0)>>
           cleared == Memset(acc.pool[idx])
           withHdr == Memcpy(cleared, 0, packet_header, 0, SUBSEQUENT_HEADER)
           packet == IF byteCount > 0
                     THEN Memcpy(withHdr, SUBSEQUENT_HEADER, jpegData, currentOffset, byteCount)
                     ELSE withHdr
       IN  RawChunkLoop(jpegData, remainingBytes - byteCount,
                        currentOffset + byteCount, part + 1,
                        [result |-> Append(acc.result, packet),
                         pool |-> [acc.pool EXCEPT ![idx] = packet],
                         next_free |-> (acc.next_free + 1) % POOL_SIZE])
  ELSE acc

\* packet1_header of generateRawImagePackets; x, y, width, height are uint16_t
RawPacket1Header(x, y, width, height, size) ==
  LET h0 == [i \in 1..PACKET1_HEADER |-> 0]
      h1 == Memcpy(h0, 0, PACKET_BASE_HEADER, 0, 4)
      h2 == Memcpy(h1, 4,
                   <<generateWritePacketByte(1, TRUE,
                        size <= MAX_PACKET_SIZE - PACKET1_HEADER)>>, 0, 1)
      h3 == Memcpy(h2, 5, PACKET1_GEOMETRY, 0, 6)
      h4 == Memcpy(h3, 9, <<HiByte(x), LoByte(x), HiByte(y), LoByte(y)>>, 0, 4)
      h5 == Memcpy(h4, 13, <<HiByte(width), LoByte(width),
                             HiByte(height), LoByte(height)>>, 0, 4)
  IN  Memcpy(h5, 18, <<HiByte(size), LoByte(size)>>, 0, 2)

generateRawImagePackets(x, y, width, height, jpegData, p0, nf0) ==
  LET size == Len(jpegData)
      idx == Acquire(nf0)
      cleared == Memset(p0[idx])
      withHdr == Memcpy(cleared, 0, RawPacket1Header(x, y, width, height, size),
                        0, PACKET1_HEADER)
      byteCount1 == Min(size, MAX_PACKET_SIZE - PACKET1_HEADER)
      packet1 == IF byteCount1 > 0
                 THEN Memcpy(withHdr, PACKET1_HEADER, jpegData, 0, byteCount1)
                 ELSE withHdr
  IN  RawChunkLoop(jpegData, size - byteCount1, byteCount1, 2,
                   [result |-> <<packet1>>,
                    pool |-> [p0 EXCEPT ![idx] = packet1],
                    next_free |-> (nf0 + 1) % POOL_SIZE])

-----------------------------------------------------------------------------
(* Session: threads, targets and the channel *)

\* Most KeyAnimation objects alive at once, most frames a decoded GIF has
MaxTasks == 2
MaxFrames == 1
\* Most writes the device rejects or cuts short in one run
MaxFailures == 2

Caller == 0
Slots == 1..MaxTasks
Threads == {Caller} \cup Slots

\* targets of image updates and animations: a key or the whole screen
KeyTarget(keyIndex) == <<"key", keyIndex>>
SCREEN == <<"screen", 0>>
NoTarget == <<"none", 0>>
ValidKeys == 0..8
\* key indices the caller passes: a key, and the values next to the range
KeyInputs == {-1, 0, 9}
\* payload sizes of one-shot images: empty, and one that needs two packets
ImageSizes == {0, 5000}
\* jpeg_data.size() of frame i of a decoded GIF: two packets
FrameBytes(i) == 5000 + i

NoTask == [target |-> NoTarget, loop |-> FALSE, nframes |-> 0, running |-> FALSE,
           current_frame |-> 0]
\* the caller's current operation: its arguments and locals
Op(name, target) ==
  [name |-> name, target |-> target, ret |-> FALSE, loop |-> FALSE,
   nframes |-> 0, stopped |-> FALSE, anim |-> 0, cursor |-> 0,
   size |-> -1, io |-> <<>>]
NoOp == Op("none", NoTarget)
\* the channel: the thread whose unfinished packet sequence arrived last, and
\* whether the packet that arrived last is a later packet of a sequence,
\* behind another thread's packet
ChannelIdle == [last |-> <<>>, torn |-> FALSE]
\* a thread's locals inside an image write: its position, the saved flags
\* (O_NONBLOCK in them), the packets the running writev has passed on, the
\* payload size and packet_count, totalWritten as writev returned it, and
\* whether errno is EAGAIN
TxOff == [pc |-> "off", flags |-> FALSE, written |-> 0, size |-> -1, npk |-> 0,
          totalWritten |-> 0, wouldBlock |-> FALSE]

\* packets.size() for a payload of the given size: one pass of the chunk loop
\* per packet after the first
RECURSIVE ChunkCount(_, _)
ChunkCount(remainingBytes, count) ==
  IF remainingBytes > 0
  THEN ChunkCount(remainingBytes - ImageChunkBytes(remainingBytes), count + 1)
  ELSE count

NumPackets(size) ==
  ChunkCount(size - Min(size, MAX_PACKET_SIZE - PACKET1_HEADER), 1)

SessInit ==
  /\ hidraw_path_empty \in BOOLEAN
  /\ hidraw_fd = -1
  /\ initialized = FALSE
  /\ fdNonblock = FALSE
  /\ animations = [k \in ValidKeys |-> 0]
  /\ screen_animation = 0
  /\ task = [s \in Slots |-> NoTask]
  /\ wpc = [s \in Slots |-> "none"]
  /\ wtarget = [s \in Slots |-> NoTarget]
  /\ tx = [t \in Threads |-> TxOff]
  /\ cpc = "idle"
  /\ cop = NoOp
  /\ channel = ChannelIdle
  /\ writeFailures = 0

\* the session is not exercised under SpecPkt and SpecDecoder
SessIdle ==
  /\ hidraw_path_empty = FALSE
  /\ hidraw_fd = -1
  /\ initialized = FALSE
  /\ fdNonblock = FALSE
  /\ animations = <<>>
  /\ screen_animation = 0
  /\ task = <<>>
  /\ wpc = <<>>
  /\ wtarget = <<>>
  /\ tx = <<>>
  /\ cpc = "idle"
  /\ cop = NoOp
  /\ channel = ChannelIdle
  /\ writeFailures = 0

\* the slot of the task stored for a target, 0 if there is none
TaskOf(target) ==
  IF target = SCREEN THEN screen_animation
  ELSE IF target[2] \in DOMAIN animations THEN animations[target[2]]
  ELSE 0

UsedSlots == {s \in Slots : task[s] # NoTask \/ wpc[s] # "none"}
FreeSlot == CHOOSE s \in Slots : s \notin UsedSlots /\ \A u \in Slots \ UsedSlots : s <= u

\* the thread of slot s has been started and has not returned from its lambda
Live(s) == wpc[s] \in {"top", "tx"}

-----------------------------------------------------------------------------
(* The transmit step of setKeyImage / setRawImage, run by thread t           *)

\* packet k of thread t's sequence of n packets reaches the device
ChannelAfter(t, k, n) ==
  [last |-> IF k = n THEN <<>> ELSE <<t>>,
   torn |-> k >= 2 /\ channel.last # <<t>>]

\* entry: the packets are generated and the iovec array is built
TxEnter(t, size) ==
  [TxOff EXCEPT !.pc = "getfl", !.size = size, !.npk = NumPackets(size)]

\* const int flags = fcntl(hidraw_fd, F_GETFL, 0)
TxGetFlags(t) ==
  /\ tx[t].pc = "getfl"
  /\ tx' = [tx EXCEPT ![t].pc = "setfl", ![t].flags = fdNonblock]
  /\ UNCHANGED <<writeFailures, hidraw_path_empty, hidraw_fd, initialized, fdNonblock, animations,
                 screen_animation, task, wpc, wtarget, cpc, cop, channel>>

\* fcntl(hidraw_fd, F_SETFL, flags | O_NONBLOCK)
TxSetNonblock(t) ==
  /\ tx[t].pc = "setfl"
  /\ fdNonblock' = TRUE
  /\ tx' = [tx EXCEPT ![t].pc = "writev"]
  /\ UNCHANGED <<writeFailures, hidraw_path_empty, hidraw_fd, initialized, animations,
                 screen_animation, task, wpc, wtarget, cpc, cop, channel>>

\* the value writev returns after passing on k whole packets
BytesWritten(k) == k * MAX_PACKET_SIZE

\* writev(hidraw_fd, iov, packet_count): hidraw takes the iovec entries one
\* write at a time, so the packets of one call arrive one by one; after the
\* last one writev returns the byte count
TxWritevPacket(t) ==
  /\ tx[t].pc = "writev"
  /\ tx[t].written < tx[t].npk
  /\ channel' = ChannelAfter(t, tx[t].written + 1, tx[t].npk)
  /\ tx' = IF tx[t].written + 1 = tx[t].npk
           THEN [tx EXCEPT ![t].pc = "restore", ![t].written = 0,
                           ![t].totalWritten = BytesWritten(tx[t].npk)]
           ELSE [tx EXCEPT ![t].written = @ + 1]
  /\ UNCHANGED <<writeFailures, hidraw_path_empty, hidraw_fd, initialized, fdNonblock, animations,
                 screen_animation, task, wpc, wtarget, cpc, cop>>

\* writev stops early: -1 with EAGAIN (descriptor non-blocking) or another
\* errno before the first packet, a short count after it
TxWritevFails(t, outcome) ==
  /\ tx[t].pc = "writev"
  /\ writeFailures < MaxFailures
  /\ tx[t].written < tx[t].npk
  /\ IF tx[t].written = 0
     THEN outcome = "err" \/ (outcome = "eagain" /\ fdNonblock)
     ELSE outcome = "short"
  /\ tx' = [tx EXCEPT ![t].pc = "restore", ![t].written = 0,
                      ![t].totalWritten = IF outcome = "short"
                                          THEN BytesWritten(tx[t].written) ELSE -1,
                      ![t].wouldBlock = (outcome = "eagain")]
  /\ writeFailures' = writeFailures + 1
  /\ UNCHANGED <<hidraw_path_empty, hidraw_fd, initialized, fdNonblock, animations,
                 screen_animation, task, wpc, wtarget, cpc, cop, channel>>

\* "errno == EAGAIN || errno == EWOULDBLOCK" after totalWritten < 0
FallbackTaken(t) == tx[t].totalWritten < 0 /\ tx[t].wouldBlock

\* fcntl(hidraw_fd, F_SETFL, flags); then the branch on totalWritten / errno:
\* the fallback writev, "return false", or on to the comparison
TxRestore(t) ==
  /\ tx[t].pc = "restore"
  /\ fdNonblock' = tx[t].flags
  /\ tx' = IF FallbackTaken(t)
           THEN [tx EXCEPT ![t].pc = "fallback", ![t].flags = FALSE,
                           ![t].totalWritten = 0, ![t].wouldBlock = FALSE]
           ELSE IF tx[t].totalWritten < 0
                THEN [tx EXCEPT ![t].pc = "failed", ![t].flags = FALSE]
                ELSE [tx EXCEPT ![t].pc = "done", ![t].flags = FALSE]
  /\ UNCHANGED <<writeFailures, hidraw_path_empty, hidraw_fd, initialized, animations,
                 screen_animation, task, wpc, wtarget, cpc, cop, channel>>

\* the fallback writev after EAGAIN, packet by packet
TxFallbackPacket(t) ==
  /\ tx[t].pc = "fallback"
  /\ tx[t].written < tx[t].npk
  /\ channel' = ChannelAfter(t, tx[t].written + 1, tx[t].npk)
  /\ tx' = IF tx[t].written + 1 = tx[t].npk
           THEN [tx EXCEPT ![t].pc = "done", ![t].written = 0,
                           ![t].totalWritten = BytesWritten(tx[t].npk)]
           ELSE [tx EXCEPT ![t].written = @ + 1]
  /\ UNCHANGED <<writeFailures, hidraw_path_empty, hidraw_fd, initialized, fdNonblock, animations,
                 screen_animation, task, wpc, wtarget, cpc, cop>>

\* the fallback writev stops early: -1 (EAGAIN again if the descriptor is
\* non-blocking, or another errno), or a short count
TxFallbackFails(t, outcome) ==
  /\ tx[t].pc = "fallback"
  /\ writeFailures < MaxFailures
  /\ tx[t].written < tx[t].npk
  /\ IF tx[t].written = 0
     THEN outcome = "err" \/ (outcome = "eagain" /\ fdNonblock)
     ELSE outcome = "short"
  /\ tx' = [tx EXCEPT ![t].pc = "done", ![t].written = 0,
                      ![t].totalWritten = IF outcome = "short"
                                          THEN BytesWritten(tx[t].written) ELSE -1]
  /\ writeFailures' = writeFailures + 1
  /\ UNCHANGED <<hidraw_path_empty, hidraw_fd, initialized, fdNonblock, animations,
                 screen_animation, task, wpc, wtarget, cpc, cop, channel>>

\* the image write has returned: from the comparison ("done") or from one of
\* its "return false" statements ("failed")
TxReturned(t) == tx[t].pc \in {"done", "failed"}

\* "return totalWritten == expectedTotal"
TxResult_AnyBytes(t) == tx[t].pc = "done" /\ tx[t].totalWritten > 0

TxResult(t) ==
  /\ tx[t].pc = "done"
  /\ tx[t].totalWritten = tx[t].npk * MAX_PACKET_SIZE

\* thread t is between fcntl(F_GETFL) and the return of its image write
InTransmit(t) == tx[t].pc \in {"getfl", "setfl", "writev", "restore", "fallback"}

-----------------------------------------------------------------------------
(* Animation threads: the lambda started by setKeyGif / setScreenGif         *)

\* "while (anim_ptr->running)"
AnimRunning_Always(s) == TRUE

AnimRunning(s) == task[s].running

\* "if (keyIndex < 0 || keyIndex > 8 || !impl_->initialized) return false"
KeyOpRejected_UninitializedOnly(keyIndex) == ~initialized

KeyOpRejected(keyIndex) == keyIndex < 0 \/ keyIndex > 8 \/ ~initialized

\* "if (!impl_->initialized) return false"
RawOpRejected_Never == FALSE

RawOpRejected == ~initialized

\* the top of the loop: leave it, or take frames[current_frame] and enter
\* setKeyImage / setScreenImage with it
WorkerTop(s) ==
  /\ wpc[s] = "top"
  /\ IF ~AnimRunning(s)
     THEN /\ wpc' = [wpc EXCEPT ![s] = "exited"]
          /\ UNCHANGED tx
     ELSE IF (wtarget[s] = SCREEN /\ ~RawOpRejected)
               \/ (wtarget[s] # SCREEN /\ ~KeyOpRejected(wtarget[s][2]))
          THEN /\ wpc' = [wpc EXCEPT ![s] = "tx"]
               /\ tx' = [tx EXCEPT ![s] = TxEnter(s, FrameBytes(task[s].current_frame))]
          ELSE /\ wpc' = [wpc EXCEPT ![s] = "tx"]
               /\ tx' = [tx EXCEPT ![s] = [TxOff EXCEPT !.pc = "failed"]]
  /\ UNCHANGED <<writeFailures, hidraw_path_empty, hidraw_fd, initialized, fdNonblock, animations,
                 screen_animation, task, wtarget, cpc, cop, channel>>

\* "current_frame++" and the test against frames.size(): wrap when looping,
\* clear running otherwise; a is the KeyAnimation
AdvanceFrame_AlwaysWrap(a) ==
  LET next == a.current_frame + 1
  IN  IF next >= a.nframes THEN [a EXCEPT !.current_frame = 0]
                           ELSE [a EXCEPT !.current_frame = next]

AdvanceFrame_KeepRunning(a) ==
  LET next == a.current_frame + 1
  IN  IF next >= a.nframes /\ a.loop THEN [a EXCEPT !.current_frame = 0]
                                     ELSE [a EXCEPT !.current_frame = next]

AdvanceFrame(a) ==
  LET next == a.current_frame + 1
  IN  IF next >= a.nframes
      THEN IF a.loop THEN [a EXCEPT !.current_frame = 0]
                     ELSE [a EXCEPT !.current_frame = next, !.running = FALSE]
      ELSE [a EXCEPT !.current_frame = next]

\* the image write returned (its result is not looked at): sleep for the
\* frame's delay, advance current_frame, wrap or clear running at the end
WorkerSleepAdvance(s) ==
  /\ wpc[s] = "tx"
  /\ TxReturned(s)
  /\ tx' = [tx EXCEPT ![s] = TxOff]
  /\ wpc' = [wpc EXCEPT ![s] = "top"]
  /\ task' = [task EXCEPT ![s] = AdvanceFrame(task[s])]
  /\ UNCHANGED <<writeFailures, hidraw_path_empty, hidraw_fd, initialized, fdNonblock, animations,
                 screen_animation, wtarget, cpc, cop, channel>>

-----------------------------------------------------------------------------
(* Caller operations *)

\* animation_thread.join() returns: the thread of slot s has finished
ThreadJoin_NoWait(s) == TRUE

ThreadJoin(s) == wpc[s] = "exited"

\* an operation returns ret; the caller is back in its own code at "return"
Returns(op, ret) ==
  /\ cpc' = "return"
  /\ cop' = [Op(op.name, op.target) EXCEPT !.ret = ret, !.stopped = op.stopped,
                                           !.size = op.size, !.io = op.io]

\* "if (impl_->initialized || impl_->hidraw_path.empty())"
InitializeSkipped_PathOnly == hidraw_path_empty

InitializeSkipped == initialized \/ hidraw_path_empty

\* one system call of initialize and whether it succeeded
IoStep(what, ok) == [what |-> what, ok |-> ok]

\* initialize(); openOk, write1Ok, write2Ok: whether open() and the write() of
\* each of the two INIT_REPORTS succeed
Initialize(openOk, write1Ok, write2Ok) ==
  /\ cpc = "idle"
  /\ LET op == Op("initialize", NoTarget)
     IN  IF InitializeSkipped
         THEN /\ Returns(op, initialized)
              /\ UNCHANGED <<hidraw_fd, initialized, channel>>
         ELSE IF ~openOk
              THEN /\ Returns([op EXCEPT !.io = <<IoStep("open", FALSE)>>], FALSE)
                   /\ UNCHANGED <<hidraw_fd, initialized, channel>>
              ELSE /\ hidraw_fd' = 3
                   /\ channel' = IF write1Ok \/ write2Ok
                                 THEN ChannelAfter(Caller, 1, 1) ELSE channel
                   /\ initialized' = TRUE
                   /\ Returns([op EXCEPT !.io = <<IoStep("open", TRUE),
                                                  IoStep("report1", write1Ok),
                                                  IoStep("report2", write2Ok)>>], TRUE)
  /\ UNCHANGED <<writeFailures, hidraw_path_empty, fdNonblock, animations, screen_animation,
                 task, wpc, wtarget, tx>>

\* setKeyImage(keyIndex, jpegData) up to the fcntl calls
SetKeyImage(keyIndex, size) ==
  /\ cpc = "idle"
  /\ LET op == [Op("setKeyImage", KeyTarget(keyIndex)) EXCEPT !.size = size]
     IN  IF KeyOpRejected(keyIndex)
         THEN Returns(op, FALSE) /\ UNCHANGED tx
         ELSE /\ cpc' = "tx"
              /\ cop' = op
              /\ tx' = [tx EXCEPT ![Caller] = TxEnter(Caller, size)]
  /\ UNCHANGED <<writeFailures, hidraw_path_empty, hidraw_fd, initialized, fdNonblock, animations,
                 screen_animation, task, wpc, wtarget, channel>>

\* setRawImage(x, y, width, height, jpegData), also reached through
\* setScreenImage, up to the fcntl calls
SetRawImage(size) ==
  /\ cpc = "idle"
  /\ LET op == [Op("setRawImage", SCREEN) EXCEPT !.size = size]
     IN  IF RawOpRejected
         THEN Returns(op, FALSE) /\ UNCHANGED tx
         ELSE /\ cpc' = "tx"
              /\ cop' = op
              /\ tx' = [tx EXCEPT ![Caller] = TxEnter(Caller, size)]
  /\ UNCHANGED <<writeFailures, hidraw_path_empty, hidraw_fd, initialized, fdNonblock, animations,
                 screen_animation, task, wpc, wtarget, channel>>

\* the caller's image write returns totalWritten == expectedTotal
CallerTxDone ==
  /\ cpc = "tx"
  /\ TxReturned(Caller)
  /\ Returns(cop, TxResult(Caller))
  /\ tx' = [tx EXCEPT ![Caller] = TxOff]
  /\ UNCHANGED <<writeFailures, hidraw_path_empty, hidraw_fd, initialized, fdNonblock, animations,
                 screen_animation, task, wpc, wtarget, channel>>

\* the first half of stopKeyAnimation / stopScreenAnimation for the target:
\* the entry is found and its running flag is cleared
StopFlag_AllTasks(target) == [s \in Slots |-> [task[s] EXCEPT !.running = FALSE]]

StopFlag(target) == [task EXCEPT ![TaskOf(target)].running = FALSE]

\* a KeyAnimation can be allocated (the model holds at most MaxTasks)
CanAllocate(target) ==
  Cardinality(UsedSlots) - (IF TaskOf(target) # 0 THEN 1 ELSE 0) < MaxTasks

\* setKeyGif / setKeyGifFromFile(keyIndex, gif, loop) up to the join inside
\* stopKeyAnimation; nframes is the number of frames the decoder will make of
\* the GIF, 0 when it fails or finds none
SetKeyGif(keyIndex, loop, nframes) ==
  /\ cpc = "idle"
  /\ LET op == [Op("setKeyGif", KeyTarget(keyIndex))
                  EXCEPT !.loop = loop, !.nframes = nframes]
     IN  IF KeyOpRejected(keyIndex)
         THEN Returns(op, FALSE) /\ UNCHANGED task
         ELSE /\ CanAllocate(KeyTarget(keyIndex))
              /\ IF TaskOf(KeyTarget(keyIndex)) # 0
                 THEN /\ task' = StopFlag(KeyTarget(keyIndex))
                      /\ cpc' = "join"
                      /\ cop' = [op EXCEPT !.stopped = TRUE]
                 ELSE /\ cpc' = "decode"
                      /\ cop' = op
                      /\ UNCHANGED task
  /\ UNCHANGED <<writeFailures, hidraw_path_empty, hidraw_fd, initialized, fdNonblock, animations,
                 screen_animation, wpc, wtarget, tx, channel>>

\* setScreenGif / setScreenGifFromFile(gif, loop) up to the join inside
\* stopScreenAnimation
SetScreenGif(loop, nframes) ==
  /\ cpc = "idle"
  /\ LET op == [Op("setScreenGif", SCREEN)
                  EXCEPT !.loop = loop, !.nframes = nframes]
     IN  IF RawOpRejected
         THEN Returns(op, FALSE) /\ UNCHANGED task
         ELSE /\ CanAllocate(SCREEN)
              /\ IF screen_animation # 0
                 THEN /\ task' = StopFlag(SCREEN)
                      /\ cpc' = "join"
                      /\ cop' = [op EXCEPT !.stopped = TRUE]
                 ELSE /\ cpc' = "decode"
                      /\ cop' = op
                      /\ UNCHANGED task
  /\ UNCHANGED <<writeFailures, hidraw_path_empty, hidraw_fd, initialized, fdNonblock, animations,
                 screen_animation, wpc, wtarget, tx, channel>>

\* stopKeyAnimation(keyIndex) up to the join
StopKeyAnimation(keyIndex) ==
  /\ cpc = "idle"
  /\ LET op == Op("stopKeyAnimation", KeyTarget(keyIndex))
     IN  IF keyIndex \in ValidKeys /\ animations[keyIndex] # 0
         THEN /\ task' = StopFlag(KeyTarget(keyIndex))
              /\ cpc' = "join"
              /\ cop' = [op EXCEPT !.stopped = TRUE]
         ELSE Returns(op, TRUE) /\ UNCHANGED task
  /\ UNCHANGED <<writeFailures, hidraw_path_empty, hidraw_fd, initialized, fdNonblock, animations,
                 screen_animation, wpc, wtarget, tx, channel>>

\* stopScreenAnimation() up to the join; allKeys: called from stopAllAnimations
StopScreenAnimation(allKeys) ==
  /\ cpc = "idle"
  /\ LET op == Op(IF allKeys THEN "stopAllAnimations" ELSE "stopScreenAnimation", SCREEN)
     IN  IF screen_animation # 0
         THEN /\ task' = StopFlag(SCREEN)
              /\ cpc' = "join"
              /\ cop' = [op EXCEPT !.stopped = TRUE]
         ELSE /\ IF allKeys THEN cpc' = "all_keys" /\ cop' = op
                            ELSE Returns(op, TRUE)
              /\ UNCHANGED task
  /\ UNCHANGED <<writeFailures, hidraw_path_empty, hidraw_fd, initialized, fdNonblock, animations,
                 screen_animation, wpc, wtarget, tx, channel>>

\* the join of stopKeyAnimation / stopScreenAnimation returns and the entry is
\* erased (the KeyAnimation is destroyed); the caller goes on in the
\* operation that called the stop
StopJoined ==
  /\ cpc = "join"
  /\ LET s == TaskOf(cop.target)
     IN  /\ ThreadJoin(s)
         /\ wpc' = [wpc EXCEPT ![s] = IF wpc[s] = "exited" THEN "none" ELSE @]
         /\ wtarget' = [wtarget EXCEPT ![s] = IF wpc[s] = "exited" THEN NoTarget ELSE @]
         /\ task' = [task EXCEPT ![s] = NoTask]
         /\ IF cop.target = SCREEN
            THEN screen_animation' = 0 /\ UNCHANGED animations
            ELSE animations' = [animations EXCEPT ![cop.target[2]] = 0]
                   /\ UNCHANGED screen_animation
  /\ IF cop.name \in {"stopKeyAnimation", "stopScreenAnimation"}
     THEN Returns(cop, TRUE)
     ELSE IF cop.name = "stopAllAnimations"
          THEN cpc' = "all_keys" /\ UNCHANGED cop
          ELSE cpc' = "decode" /\ UNCHANGED cop
  /\ UNCHANGED <<writeFailures, hidraw_path_empty, hidraw_fd, initialized, fdNonblock, tx, channel>>

\* entries of the map from key k on, in map order
EntriesFrom_AfterOnly(k) == {j \in ValidKeys : j > k /\ animations[j] # 0}

EntriesFrom(k) == {j \in ValidKeys : j >= k /\ animations[j] # 0}

\* stopAllAnimations, the loop over impl_->animations: the next entry's flag
\* is cleared; after the last entry the map is cleared
StopAllNext ==
  /\ cpc = "all_keys"
  /\ IF EntriesFrom(cop.cursor) # {}
     THEN LET k == CHOOSE j \in EntriesFrom(cop.cursor) :
                     \A i \in EntriesFrom(cop.cursor) : j <= i
          IN  /\ task' = StopFlag(KeyTarget(k))
              /\ cpc' = "all_join"
              /\ cop' = [cop EXCEPT !.cursor = k, !.stopped = TRUE]
              /\ UNCHANGED <<animations, wpc, wtarget>>
     ELSE /\ task' = [s \in Slots |->
                        IF \E k \in ValidKeys : animations[k] = s THEN NoTask ELSE task[s]]
          /\ wpc' = [s \in Slots |->
                       IF \E k \in ValidKeys : animations[k] = s /\ wpc[s] = "joined"
                       THEN "none" ELSE wpc[s]]
          /\ wtarget' = [s \in Slots |->
                           IF \E k \in ValidKeys : animations[k] = s /\ wpc[s] = "joined"
                           THEN NoTarget ELSE wtarget[s]]
          /\ animations' = [k \in ValidKeys |-> 0]
          /\ Returns(cop, TRUE)
  /\ UNCHANGED <<writeFailures, hidraw_path_empty, hidraw_fd, initialized, fdNonblock,
                 screen_animation, tx, channel>>

\* stopAllAnimations, the join inside the loop: the entry stays in the map
StopAllJoined ==
  /\ cpc = "all_join"
  /\ LET s == animations[cop.cursor]
     IN  /\ ThreadJoin(s)
         /\ wpc' = [wpc EXCEPT ![s] = IF wpc[s] = "exited" THEN "joined" ELSE @]
  /\ cpc' = "all_keys"
  /\ cop' = [cop EXCEPT !.cursor = @ + 1]
  /\ UNCHANGED <<writeFailures, hidraw_path_empty, hidraw_fd, initialized, fdNonblock, animations,
                 screen_animation, task, wtarget, tx, channel>>

\* "if (!GifDecoder::decodeGif(...)) return false;
\*  if (anim->animation.frames.empty()) return false;"
GifDecodeFailed_Never(op) == FALSE

GifDecodeFailed(op) == op.nframes = 0

\* set*Gif after the stop: decode; on success the KeyAnimation is set up and
\* its thread is started
GifDecodeAndStart ==
  /\ cpc = "decode"
  /\ GifDecodeFailed(cop) \/ Slots \ UsedSlots # {}
  /\ IF GifDecodeFailed(cop)
     THEN /\ Returns(cop, FALSE)
          /\ UNCHANGED <<task, wpc, wtarget>>
     ELSE LET s == FreeSlot
          IN  /\ task' = [task EXCEPT ![s] = [target |-> cop.target, loop |-> cop.loop,
                                              nframes |-> cop.nframes, running |-> TRUE,
                                              current_frame |-> 0]]
              /\ wpc' = [wpc EXCEPT ![s] = "top"]
              /\ wtarget' = [wtarget EXCEPT ![s] = cop.target]
              /\ cpc' = "store"
              /\ cop' = [cop EXCEPT !.anim = s]
  /\ UNCHANGED <<writeFailures, hidraw_path_empty, hidraw_fd, initialized, fdNonblock, animations,
                 screen_animation, tx, channel>>

\* set*Gif: "impl_->animations[keyIndex] = std::move(anim)" or
\* "impl_->screen_animation = std::move(anim)", return true
GifStore ==
  /\ cpc = "store"
  /\ IF cop.target = SCREEN
     THEN screen_animation' = cop.anim /\ UNCHANGED animations
     ELSE animations' = [animations EXCEPT ![cop.target[2]] = cop.anim]
            /\ UNCHANGED screen_animation
  /\ Returns(cop, TRUE)
  /\ UNCHANGED <<writeFailures, hidraw_path_empty, hidraw_fd, initialized, fdNonblock, task, wpc,
                 wtarget, tx, channel>>

\* the caller has the operation's result and is free to call again
CallerReturn ==
  /\ cpc = "return"
  /\ cpc' = "idle"
  /\ cop' = NoOp
  /\ UNCHANGED <<writeFailures, hidraw_path_empty, hidraw_fd, initialized, fdNonblock, animations,
                 screen_animation, task, wpc, wtarget, tx, channel>>

-----------------------------------------------------------------------------
(* Input decoder: the body of the monitoring thread's poll loop *)

NoReport == <<-1>>

ButtonEvent(code, isPress) ==
  [type |-> IF isPress THEN "BUTTON_PRESS" ELSE "BUTTON_RELEASE",
   button_code |-> code, pressed |-> isPress]

\* "if (event_callback_) event_callback_(event)"
Deliver(evs) == IF event_callback_ THEN evs ELSE <<>>

\* iteration order of a std::set<uint8_t>: ascending
RECURSIVE Ascending(_)
Ascending(S) ==
  IF S = {} THEN <<>>
  ELSE LET m == CHOOSE x \in S : \A y \in S : x <= y
       IN  <<m>> \o Ascending(S \ {m})

IsPButtonEvent_AnySignature(r) == Len(r) >= 6

\* bytes_read >= 6 && report[0..3] == 11 ff 0b 00; report byte k is r[k + 1]
IsPButtonEvent(r) ==
  Len(r) >= 6 /\ r[1] = 17 /\ r[2] = 255 /\ r[3] = 11 /\ r[4] = 0

\* the navigation branch: events emitted and the new last_p_button
NavDecode_CodeFromReport(r, last) ==
  IF r[5] = 1 /\ (r[6] = 161 \/ r[6] = 162)
  THEN [events |-> <<ButtonEvent(r[6], TRUE)>>, last |-> r[6]]
  ELSE IF r[5] = 0 /\ last # 0
       THEN [events |-> <<ButtonEvent(r[6], FALSE)>>, last |-> 0]
       ELSE [events |-> <<>>, last |-> last]

NavDecode(r, last) ==
  IF r[5] = 1 /\ (r[6] = 161 \/ r[6] = 162)
  THEN [events |-> <<ButtonEvent(r[6], TRUE)>>, last |-> r[6]]
  ELSE IF r[5] = 0 /\ last # 0
       THEN [events |-> <<ButtonEvent(last, FALSE)>>, last |-> 0]
       ELSE [events |-> <<>>, last |-> last]

\* the grid branch is entered: not a P button packet, at least 7 bytes read,
\* report bytes 13 ff 02 00 xx 01
GridBranch_FormatBytesOnly(r, is_p_button_event) ==
  /\ Len(r) > 0 /\ Len(r) >= 7
  /\ r[4] = 0 /\ r[6] = 1

GridBranch(r, is_p_button_event) ==
  /\ ~is_p_button_event /\ Len(r) > 0 /\ Len(r) >= 7
  /\ r[1] = 19 /\ r[2] = 255 /\ r[3] = 2 /\ r[4] = 0 /\ r[6] = 1

RECURSIVE CollectPressed_NoRangeCheck(_, _, _)
CollectPressed_NoRangeCheck(r, i, current_pressed) ==
  IF i < Len(r)
  THEN LET button_code_raw == r[i + 1]
       IN  IF button_code_raw = 0 THEN current_pressed
           ELSE CollectPressed_NoRangeCheck(r, i + 1,
                                            current_pressed \cup {button_code_raw - 1})
  ELSE current_pressed

\* "for (size_t i = 6; i < bytes_read; i++)": collect current_pressed
RECURSIVE CollectPressed(_, _, _)
CollectPressed(r, i, current_pressed) ==
  IF i < Len(r)
  THEN LET button_code_raw == r[i + 1]
       IN  IF button_code_raw = 0 THEN current_pressed
           ELSE IF button_code_raw >= 1 /\ button_code_raw <= 9
                THEN CollectPressed(r, i + 1, current_pressed \cup {button_code_raw - 1})
                ELSE CollectPressed(r, i + 1, current_pressed)
  ELSE current_pressed

NewlyPressed_All(current_pressed, previous) == current_pressed

\* buttons in current_pressed that are not in pressed_buttons
NewlyPressed(current_pressed, previous) ==
  {b \in current_pressed : b \notin previous}

\* to_release: buttons in pressed_buttons that are not in current_pressed
ToRelease_AllPrevious(current_pressed, previous) == previous

ToRelease(current_pressed, previous) ==
  {b \in previous : b \notin current_pressed}

\* the grid branch: events emitted and the new pressed_buttons
GridDecode_KeepSet(r, previous) ==
  LET current_pressed == CollectPressed(r, 6, {})
      newly == Ascending(NewlyPressed(current_pressed, previous))
      to_release == Ascending(ToRelease(current_pressed, previous))
  IN  [events |-> [i \in 1..Len(newly) |-> ButtonEvent(newly[i], TRUE)]
                    \o [i \in 1..Len(to_release) |-> ButtonEvent(to_release[i], FALSE)],
       pressed |-> previous]

GridDecode(r, previous) ==
  LET current_pressed == CollectPressed(r, 6, {})
      presses == [i \in 1..Cardinality(NewlyPressed(current_pressed, previous)) |->
                    ButtonEvent(Ascending(NewlyPressed(current_pressed, previous))[i], TRUE)]
      to_release == Ascending(ToRelease(current_pressed, previous))
      releases == [i \in 1..Len(to_release) |-> ButtonEvent(to_release[i], FALSE)]
  IN  [events |-> presses \o releases, pressed |-> current_pressed]

\* one pass of the loop body over the report just read (lines 363-477)
DecodeReport(r, previous, last) ==
  LET is_p_button_event == IsPButtonEvent(r)
      nav == IF is_p_button_event THEN NavDecode(r, last)
             ELSE [events |-> <<>>, last |-> last]
      grid == IF GridBranch(r, is_p_button_event) THEN GridDecode(r, previous)
              ELSE [events |-> <<>>, pressed |-> previous]
  IN  [events |-> nav.events \o grid.events,
       pressed |-> grid.pressed,
       last |-> nav.last]

-----------------------------------------------------------------------------
(* Monitoring: setEventCallback, startMonitoring, stopMonitoring and the    *)
(* monitoring thread                                                        *)

\* Longest list of button codes a report of the model carries
MaxCodes == 3

\* Raw button codes: the terminator, three keys, and a code outside 1..9
RawCodes == {0, 1, 2, 3, 10}
CodeLists == UNION {[1..n -> RawCodes] : n \in 0..MaxCodes}

NavSignature == <<17, 255, 11, 0>>                \* 11 ff 0b 00
GridSignature == <<19, 255, 2, 0>>                \* 13 ff 02 00
OtherSignature == <<19, 255, 11, 0>>

\* Reports as read(): the bytes_read bytes the call returned.
NavReports ==
  {NavSignature \o <<a, c>> \o t : a \in {0, 1}, c \in {0, 1, 161, 162}, t \in CodeLists}
GridReports ==
  {GridSignature \o <<a, c>> \o t : a \in {0, 1}, c \in {0, 1}, t \in CodeLists}
OtherReports ==
  {OtherSignature \o <<0, 1>> \o t : t \in CodeLists}
ShortReports ==
  {SubSeq(h \o <<1, 161>>, 1, k) : h \in {NavSignature, GridSignature}, k \in 0..5}
Reports == NavReports \cup GridReports \cup OtherReports \cup ShortReports

MonInit ==
  /\ event_callback_ = FALSE
  /\ monitoring = FALSE
  /\ monitor_thread = "none"
  /\ monCaller = "idle"
  /\ aborted = FALSE
  /\ pressed_buttons = {}
  /\ last_p_button = 0
  /\ lastReport = NoReport
  /\ prevPressed = {}
  /\ prevLastP = 0
  /\ events = <<>>
  /\ stamps = <<>>
  /\ pending = <<>>
  /\ steady_clock = 0
  /\ last_timestamp = 0

decoderVars == <<pressed_buttons, last_p_button, lastReport, prevPressed,
                 prevLastP, events, stamps, pending, steady_clock, last_timestamp>>

CallerIdle == monCaller = "idle" /\ cpc = "idle" /\ ~aborted
ThreadRunning ==
  monitor_thread \in {"open", "loop", "check", "emit", "callback", "finish"}

\* setEventCallback(callback); callers register before they start monitoring
SetEventCallback(cb) ==
  /\ CallerIdle
  /\ ~ThreadRunning
  /\ event_callback_' = cb
  /\ UNCHANGED <<monitoring, monitor_thread, monCaller, aborted>>
  /\ UNCHANGED decoderVars

\* "if (impl_->monitoring || !event_callback_) return;"
StartMonitoringRefused_WhenActive == monitoring

StartMonitoringRefused == monitoring \/ ~event_callback_

\* startMonitoring returns at once
StartMonitoringIgnored ==
  /\ CallerIdle
  /\ StartMonitoringRefused
  /\ UNCHANGED <<event_callback_, monitoring, monitor_thread, monCaller, aborted>>
  /\ UNCHANGED decoderVars

\* startMonitoring: the flag is set and the thread object is assigned
StartMonitoring_ResetsDecoder ==
  /\ CallerIdle
  /\ ~StartMonitoringRefused
  /\ monitor_thread = "none"
  /\ monitoring' = TRUE
  /\ monitor_thread' = "open"
  /\ pressed_buttons' = {}
  /\ last_p_button' = 0
  /\ UNCHANGED <<event_callback_, monCaller, aborted>>
  /\ UNCHANGED <<lastReport, prevPressed, prevLastP, events, stamps, pending,
                 steady_clock, last_timestamp>>

StartMonitoring ==
  /\ CallerIdle
  /\ ~StartMonitoringRefused
  /\ monitor_thread = "none"
  /\ monitoring' = TRUE
  /\ monitor_thread' = "open"
  /\ UNCHANGED <<event_callback_, monCaller, aborted>>
  /\ UNCHANGED decoderVars

\* startMonitoring while monitor_thread still holds a finished, unjoined
\* thread: move-assignment to a joinable std::thread calls std::terminate
StartMonitoringOnJoinable ==
  /\ CallerIdle
  /\ ~StartMonitoringRefused
  /\ monitor_thread # "none"
  /\ monitoring' = TRUE
  /\ aborted' = TRUE
  /\ UNCHANGED <<event_callback_, monitor_thread, monCaller>>
  /\ UNCHANGED decoderVars

\* the thread's open(): on failure it clears the flag and returns
MonitorOpen(ok) ==
  /\ ~aborted
  /\ monitor_thread = "open"
  /\ IF ok THEN monitor_thread' = "loop" /\ UNCHANGED monitoring
           ELSE monitor_thread' = "exited" /\ monitoring' = FALSE
  /\ UNCHANGED <<event_callback_, monCaller, aborted>>
  /\ UNCHANGED decoderVars

\* "while (impl_->monitoring)" is false, or poll() failed: close, clear, return
MonitorLeaveLoop(pollFailed) ==
  /\ ~aborted
  /\ monitor_thread = "loop"
  /\ IF pollFailed THEN monitoring ELSE ~monitoring
  /\ monitor_thread' = "exited"
  /\ monitoring' = FALSE
  /\ UNCHANGED <<event_callback_, monCaller, aborted>>
  /\ UNCHANGED decoderVars

\* poll() timed out or signalled no POLLIN: continue
MonitorPollIdle ==
  /\ ~aborted
  /\ monitor_thread = "loop" /\ monitoring
  /\ UNCHANGED <<event_callback_, monitoring, monitor_thread, monCaller, aborted>>
  /\ UNCHANGED decoderVars

\* "event->timestamp = ...steady_clock::now()..."
Now == steady_clock

\* read() returned the report r: one decoder pass with its callbacks (lines
\* 361-477) while the clock stands; the thread is then at the errno check
\* that ends the loop body (line 479)
MonitorRead(r) ==
  /\ ~aborted
  /\ monitor_thread = "loop" /\ monitoring
  /\ LET d == DecodeReport(r, pressed_buttons, last_p_button)
     IN  /\ events' = Deliver(d.events)
         /\ stamps' = [i \in 1..Len(Deliver(d.events)) |-> Now]
         /\ last_timestamp' = IF Deliver(d.events) = <<>> THEN last_timestamp ELSE Now
         /\ pressed_buttons' = d.pressed
         /\ last_p_button' = d.last
         /\ lastReport' = r
  /\ prevPressed' = pressed_buttons
  /\ prevLastP' = last_p_button
  /\ monitor_thread' = "check"
  /\ UNCHANGED <<pending, steady_clock>>
  /\ UNCHANGED <<event_callback_, monitoring, monCaller, aborted>>

\* bytes_read >= 0: back to the loop condition; the record of the pass ends
MonitorContinue ==
  /\ ~aborted
  /\ monitor_thread = "check"
  /\ monitor_thread' = "loop"
  /\ lastReport' = NoReport
  /\ events' = <<>>
  /\ stamps' = <<>>
  /\ prevPressed' = pressed_buttons
  /\ prevLastP' = last_p_button
  /\ UNCHANGED <<pressed_buttons, last_p_button, pending, steady_clock, last_timestamp>>
  /\ UNCHANGED <<event_callback_, monitoring, monCaller, aborted>>

\* read() returned -1: no branch of the decoder is entered; the loop is left
\* unless errno is EAGAIN
MonitorReadError(eagain) ==
  /\ ~aborted
  /\ monitor_thread = "loop" /\ monitoring
  /\ IF eagain THEN UNCHANGED <<monitoring, monitor_thread>>
               ELSE monitor_thread' = "exited" /\ monitoring' = FALSE
  /\ UNCHANGED <<event_callback_, monCaller, aborted>>
  /\ UNCHANGED decoderVars

\* stopMonitoring: nothing happens unless the flag is set; then the flag is
\* cleared and the thread, if joinable, is joined
StopMonitoring ==
  /\ CallerIdle
  /\ IF monitoring
     THEN /\ monitoring' = FALSE
          /\ monCaller' = IF monitor_thread # "none" THEN "joining" ELSE "stop_return"
     ELSE /\ monCaller' = "stop_return"
          /\ UNCHANGED monitoring
  /\ UNCHANGED <<event_callback_, monitor_thread, aborted>>
  /\ UNCHANGED decoderVars

\* monitor_thread.join() returns once the thread has finished
StopMonitoringJoined ==
  /\ ~aborted
  /\ monCaller = "joining"
  /\ monitor_thread = "exited"
  /\ monitor_thread' = "none"
  /\ monCaller' = "stop_return"
  /\ UNCHANGED <<event_callback_, monitoring, aborted>>
  /\ UNCHANGED decoderVars

\* the caller is back from stopMonitoring
StopMonitoringReturn ==
  /\ ~aborted
  /\ monCaller = "stop_return"
  /\ monCaller' = "idle"
  /\ UNCHANGED <<event_callback_, monitoring, monitor_thread, aborted>>
  /\ UNCHANGED decoderVars

\* ~MXKeypadDevice: stopAllAnimations() finds no animation to stop here (no
\* animation was started); then stopMonitoring() up to its join
Destroy ==
  /\ CallerIdle
  /\ animations = <<>> /\ screen_animation = 0
  /\ IF monitoring
     THEN /\ monitoring' = FALSE
          /\ monCaller' = IF monitor_thread # "none" THEN "destroy_join"
                                                     ELSE "destroy_close"
     ELSE /\ monCaller' = "destroy_close"
          /\ UNCHANGED monitoring
  /\ UNCHANGED <<event_callback_, monitor_thread, aborted>>
  /\ UNCHANGED decoderVars
  /\ UNCHANGED sessVars

\* ~MXKeypadDevice: the join inside stopMonitoring returns
DestroyJoined ==
  /\ ~aborted
  /\ monCaller = "destroy_join"
  /\ monitor_thread = "exited"
  /\ monitor_thread' = "none"
  /\ monCaller' = "destroy_close"
  /\ UNCHANGED <<event_callback_, monitoring, aborted>>
  /\ UNCHANGED decoderVars
  /\ UNCHANGED sessVars

\* ~MXKeypadDevice: "if (impl_->hidraw_fd >= 0) close(impl_->hidraw_fd)";
\* the closed handle is written as -1
DestroyClose ==
  /\ ~aborted
  /\ monCaller = "destroy_close"
  /\ monCaller' = "closed"
  /\ hidraw_fd' = IF hidraw_fd >= 0 THEN -1 ELSE hidraw_fd
  /\ UNCHANGED <<event_callback_, monitoring, monitor_thread, aborted>>
  /\ UNCHANGED decoderVars
  /\ UNCHANGED <<hidraw_path_empty, initialized, fdNonblock, animations,
                 screen_animation, task, wpc, wtarget, tx, cpc, cop, channel,
                 writeFailures>>

\* ~MXKeypadDevice: impl_ is destroyed; ~std::thread of a joinable
\* monitor_thread calls std::terminate
DestroyImpl ==
  /\ ~aborted
  /\ monCaller = "closed"
  /\ monCaller' = "destroyed"
  /\ aborted' = (monitor_thread # "none")
  /\ UNCHANGED <<event_callback_, monitoring, monitor_thread>>
  /\ UNCHANGED decoderVars
  /\ UNCHANGED sessVars

NextDecoder ==
  \/ \E cb \in BOOLEAN : SetEventCallback(cb) /\ UNCHANGED <<pktVars, sessVars>>
  \/ StartMonitoringIgnored /\ UNCHANGED <<pktVars, sessVars>>
  \/ StartMonitoring /\ UNCHANGED <<pktVars, sessVars>>
  \/ StartMonitoringOnJoinable /\ UNCHANGED <<pktVars, sessVars>>
  \/ \E ok \in BOOLEAN : MonitorOpen(ok) /\ UNCHANGED <<pktVars, sessVars>>
  \/ \E f \in BOOLEAN : MonitorLeaveLoop(f) /\ UNCHANGED <<pktVars, sessVars>>
  \/ MonitorPollIdle /\ UNCHANGED <<pktVars, sessVars>>
  \/ /\ monitor_thread = "loop"
     /\ \E r \in Reports : MonitorRead(r) /\ UNCHANGED <<pktVars, sessVars>>
  \/ MonitorContinue /\ UNCHANGED <<pktVars, sessVars>>
  \/ \E e \in BOOLEAN : MonitorReadError(e) /\ UNCHANGED <<pktVars, sessVars>>
  \/ StopMonitoring /\ UNCHANGED <<pktVars, sessVars>>
  \/ StopMonitoringJoined /\ UNCHANGED <<pktVars, sessVars>>
  \/ StopMonitoringReturn /\ UNCHANGED <<pktVars, sessVars>>
  \/ \E ok \in BOOLEAN, w1 \in BOOLEAN, w2 \in BOOLEAN :
       CallerIdle /\ Initialize(ok, w1, w2) /\ UNCHANGED <<pktVars, monVars>>
  \/ ~aborted /\ monCaller = "idle" /\ CallerReturn /\ UNCHANGED <<pktVars, monVars>>
  \/ Destroy /\ UNCHANGED pktVars
  \/ DestroyJoined /\ UNCHANGED pktVars
  \/ DestroyClose /\ UNCHANGED <<pktVars>>
  \/ DestroyImpl /\ UNCHANGED pktVars

\* the packetizer is not exercised under SpecDecoder
PktIdle ==
  /\ pool = <<>>
  /\ next_free = 0
  /\ pktCall = NoCall
  /\ pktResult = <<>>
  /\ gen = <<>>

InitDecoder == MonInit /\ PktIdle /\ SessIdle

SpecDecoder == InitDecoder /\ [][NextDecoder]_vars

-----------------------------------------------------------------------------
(* Event delivery: the decoder pass taken one callback at a time, with the  *)
(* steady clock running                                                      *)

\* The clock advances at most this many milliseconds in a run
MaxClock == 2

\* grid reports listing up to two of the codes 0, 1, 2; a navigation press
\* and release; a report of one byte
DeliveryReports ==
  {GridSignature \o <<0, 1>> \o t :
     t \in {c \in CodeLists : Len(c) <= 2 /\ \A i \in 1..Len(c) : c[i] \in {0, 1, 2}}}
    \cup {NavSignature \o <<1, 161>>, NavSignature \o <<0, 0>>, <<19>>}

\* time passes
ClockTick ==
  /\ ~aborted
  /\ steady_clock < MaxClock
  /\ steady_clock' = steady_clock + 1
  /\ UNCHANGED <<event_callback_, monitoring, monitor_thread, monCaller, aborted,
                 pressed_buttons, last_p_button, lastReport, prevPressed, prevLastP,
                 events, stamps, pending, last_timestamp>>

\* the events are created and delivered in the order the pass finds them
NextToDeliver_Last(q) == q[Len(q)]

NextToDeliver(q) == Head(q)

\* read() returned the report r; the pass runs up to its first event:
\* pending is what the branches of the pass will emit, one by one; a
\* navigation press records its code before its callback
MonitorReadReport(r) ==
  /\ ~aborted
  /\ monitor_thread = "loop" /\ monitoring
  /\ LET d == DecodeReport(r, pressed_buttons, last_p_button)
     IN  /\ pending' = d.events
         /\ monitor_thread' = IF d.events = <<>> THEN "finish" ELSE "emit"
         /\ last_p_button' = IF IsPButtonEvent(r) /\ d.last # 0 THEN d.last
                              ELSE last_p_button
  /\ lastReport' = r
  /\ prevPressed' = pressed_buttons
  /\ prevLastP' = last_p_button
  /\ events' = <<>>
  /\ stamps' = <<>>
  /\ UNCHANGED <<pressed_buttons, steady_clock, last_timestamp>>
  /\ UNCHANGED <<event_callback_, monitoring, monCaller, aborted>>

\* the next event is made, stamped with now() and handed to the callback:
\* "if (event_callback_) event_callback_(event)"
MonitorEmit ==
  /\ ~aborted
  /\ monitor_thread = "emit"
  /\ monitor_thread' = "callback"
  /\ IF event_callback_
     THEN /\ events' = Append(events, NextToDeliver(pending))
          /\ stamps' = Append(stamps, Now)
          /\ last_timestamp' = Now
     ELSE UNCHANGED <<events, stamps, last_timestamp>>
  /\ UNCHANGED <<pressed_buttons, last_p_button, lastReport, prevPressed, prevLastP,
                 pending, steady_clock>>
  /\ UNCHANGED <<event_callback_, monitoring, monCaller, aborted>>

\* the callback returns; the pass goes on to its next event or to its end
MonitorCallbackReturns ==
  /\ ~aborted
  /\ monitor_thread = "callback"
  /\ pending' = Tail(pending)
  /\ monitor_thread' = IF Len(pending) = 1 THEN "finish" ELSE "emit"
  /\ UNCHANGED <<pressed_buttons, last_p_button, lastReport, prevPressed, prevLastP,
                 events, stamps, steady_clock, last_timestamp>>
  /\ UNCHANGED <<event_callback_, monitoring, monCaller, aborted>>

\* after the last callback: a navigation release clears last_p_button, a
\* grid report replaces pressed_buttons (line 475); then the errno check
MonitorFinishPass ==
  /\ ~aborted
  /\ monitor_thread = "finish"
  /\ LET d == DecodeReport(lastReport, prevPressed, prevLastP)
     IN  /\ pressed_buttons' = d.pressed
         /\ last_p_button' = d.last
  /\ monitor_thread' = "check"
  /\ UNCHANGED <<lastReport, prevPressed, prevLastP, events, stamps, pending,
                 steady_clock, last_timestamp>>
  /\ UNCHANGED <<event_callback_, monitoring, monCaller, aborted>>

NextDelivery ==
  \/ \E cb \in BOOLEAN : SetEventCallback(cb) /\ UNCHANGED <<pktVars, sessVars>>
  \/ StartMonitoringIgnored /\ UNCHANGED <<pktVars, sessVars>>
  \/ StartMonitoring /\ UNCHANGED <<pktVars, sessVars>>
  \/ StartMonitoringOnJoinable /\ UNCHANGED <<pktVars, sessVars>>
  \/ \E ok \in BOOLEAN : MonitorOpen(ok) /\ UNCHANGED <<pktVars, sessVars>>
  \/ \E f \in BOOLEAN : MonitorLeaveLoop(f) /\ UNCHANGED <<pktVars, sessVars>>
  \/ MonitorPollIdle /\ UNCHANGED <<pktVars, sessVars>>
  \/ /\ monitor_thread = "loop"
     /\ \E r \in DeliveryReports :
          MonitorReadReport(r) /\ UNCHANGED <<pktVars, sessVars>>
  \/ MonitorEmit /\ UNCHANGED <<pktVars, sessVars>>
  \/ MonitorCallbackReturns /\ UNCHANGED <<pktVars, sessVars>>
  \/ MonitorFinishPass /\ UNCHANGED <<pktVars, sessVars>>
  \/ MonitorContinue /\ UNCHANGED <<pktVars, sessVars>>
  \/ \E e \in BOOLEAN : MonitorReadError(e) /\ UNCHANGED <<pktVars, sessVars>>
  \/ StopMonitoring /\ UNCHANGED <<pktVars, sessVars>>
  \/ StopMonitoringJoined /\ UNCHANGED <<pktVars, sessVars>>
  \/ StopMonitoringReturn /\ UNCHANGED <<pktVars, sessVars>>
  \/ ClockTick /\ UNCHANGED <<pktVars, sessVars>>

SpecDelivery == InitDecoder /\ [][NextDelivery]_vars

-----------------------------------------------------------------------------
(* The session: caller operations, animation threads and their image writes *)

Next ==
  \/ \E ok \in BOOLEAN, w1 \in BOOLEAN, w2 \in BOOLEAN :
       Initialize(ok, w1, w2) /\ UNCHANGED <<pktVars, monVars>>
  \/ \E k \in KeyInputs, n \in ImageSizes : SetKeyImage(k, n) /\ UNCHANGED <<pktVars, monVars>>
  \/ \E n \in ImageSizes : SetRawImage(n) /\ UNCHANGED <<pktVars, monVars>>
  \/ CallerTxDone /\ UNCHANGED <<pktVars, monVars>>
  \/ \E k \in KeyInputs, l \in BOOLEAN, n \in 0..MaxFrames :
       SetKeyGif(k, l, n) /\ UNCHANGED <<pktVars, monVars>>
  \/ \E l \in BOOLEAN, n \in 0..MaxFrames :
       SetScreenGif(l, n) /\ UNCHANGED <<pktVars, monVars>>
  \/ \E k \in KeyInputs : StopKeyAnimation(k) /\ UNCHANGED <<pktVars, monVars>>
  \/ \E a \in BOOLEAN : StopScreenAnimation(a) /\ UNCHANGED <<pktVars, monVars>>
  \/ StopJoined /\ UNCHANGED <<pktVars, monVars>>
  \/ StopAllNext /\ UNCHANGED <<pktVars, monVars>>
  \/ StopAllJoined /\ UNCHANGED <<pktVars, monVars>>
  \/ GifDecodeAndStart /\ UNCHANGED <<pktVars, monVars>>
  \/ GifStore /\ UNCHANGED <<pktVars, monVars>>
  \/ CallerReturn /\ UNCHANGED <<pktVars, monVars>>
  \/ \E s \in Slots : WorkerTop(s) /\ UNCHANGED <<pktVars, monVars>>
  \/ \E s \in Slots : WorkerSleepAdvance(s) /\ UNCHANGED <<pktVars, monVars>>
  \/ \E t \in Threads : TxGetFlags(t) /\ UNCHANGED <<pktVars, monVars>>
  \/ \E t \in Threads : TxSetNonblock(t) /\ UNCHANGED <<pktVars, monVars>>
  \/ \E t \in Threads : TxWritevPacket(t) /\ UNCHANGED <<pktVars, monVars>>
  \/ \E t \in Threads, o \in {"eagain", "err", "short"} :
       TxWritevFails(t, o) /\ UNCHANGED <<pktVars, monVars>>
  \/ \E t \in Threads : TxRestore(t) /\ UNCHANGED <<pktVars, monVars>>
  \/ \E t \in Threads : TxFallbackPacket(t) /\ UNCHANGED <<pktVars, monVars>>
  \/ \E t \in Threads, o \in {"eagain", "err", "short"} :
       TxFallbackFails(t, o) /\ UNCHANGED <<pktVars, monVars>>

Init == SessInit /\ PktIdle /\ MonInit

Spec == Init /\ [][Next]_vars

-----------------------------------------------------------------------------
(* Animations alone: GIFs of several frames on two keys and the screen, on a *)
(* device that accepts every write                                           *)

\* Most frames of a GIF here
AnimFrames == 2
\* the keys animated here: the first and the last
AnimKeys == {0, 8}

NextAnim ==
  \/ \E ok \in BOOLEAN : Initialize(ok, TRUE, TRUE) /\ UNCHANGED <<pktVars, monVars>>
  \/ \E k \in AnimKeys, l \in BOOLEAN, n \in 0..AnimFrames :
       SetKeyGif(k, l, n) /\ UNCHANGED <<pktVars, monVars>>
  \/ \E l \in BOOLEAN, n \in 0..AnimFrames :
       SetScreenGif(l, n) /\ UNCHANGED <<pktVars, monVars>>
  \/ \E k \in AnimKeys : StopKeyAnimation(k) /\ UNCHANGED <<pktVars, monVars>>
  \/ \E a \in BOOLEAN : StopScreenAnimation(a) /\ UNCHANGED <<pktVars, monVars>>
  \/ StopJoined /\ UNCHANGED <<pktVars, monVars>>
  \/ StopAllNext /\ UNCHANGED <<pktVars, monVars>>
  \/ StopAllJoined /\ UNCHANGED <<pktVars, monVars>>
  \/ GifDecodeAndStart /\ UNCHANGED <<pktVars, monVars>>
  \/ GifStore /\ UNCHANGED <<pktVars, monVars>>
  \/ CallerReturn /\ UNCHANGED <<pktVars, monVars>>
  \/ \E s \in Slots : WorkerTop(s) /\ UNCHANGED <<pktVars, monVars>>
  \/ \E s \in Slots : WorkerSleepAdvance(s) /\ UNCHANGED <<pktVars, monVars>>
  \/ \E s \in Slots : TxGetFlags(s) /\ UNCHANGED <<pktVars, monVars>>
  \/ \E s \in Slots : TxSetNonblock(s) /\ UNCHANGED <<pktVars, monVars>>
  \/ \E s \in Slots : TxWritevPacket(s) /\ UNCHANGED <<pktVars, monVars>>
  \/ \E s \in Slots : TxRestore(s) /\ UNCHANGED <<pktVars, monVars>>

InitAnim == SessInit /\ ~hidraw_path_empty /\ PktIdle /\ MonInit

SpecAnim == InitAnim /\ [][NextAnim]_vars

-----------------------------------------------------------------------------
(* The packetizer applied to bounded inputs *)

\* Image buffers: n bytes, byte i (from 0) is 1 + (seed + 7 * i) mod 255, so no
\* payload byte is zero and neighbouring chunks differ.
ImageData(n, seed) == [i \in 1..n |-> 1 + ((seed + 7 * (i - 1)) % 255)]

\* Payload sizes around the chunk boundaries (4075 = 4095 - 20 bytes fit the
\* first packet, 4090 = 4095 - 5 each later one) and around the 16-bit limit
\* of the header's length field.
BoundarySizes == {0, 1, 4074, 4075, 4076, 8165, 8166}
LargeSizes == {65535, 65536}
\* 35 packets: 4075 + 33 * 4090 bytes fill 34 packets
ManyPacketSizes == {139046}
Seeds == {0, 3}
KeyIndices == 0..8
RawRects == {<<23, 6, SCREEN_WIDTH, SCREEN_HEIGHT>>, <<0, 0, 1, 1>>,
             <<300, 258, 256, 511>>}

KeyCalls ==
  [op : {"key"}, keyIndex : KeyIndices, size : BoundarySizes, seed : Seeds]
    \cup [op : {"key"}, keyIndex : {0, 8}, size : LargeSizes, seed : {0}]
RawCalls ==
  [op : {"raw"}, rect : RawRects, size : BoundarySizes, seed : Seeds]
    \cup [op : {"raw"}, rect : {<<23, 6, SCREEN_WIDTH, SCREEN_HEIGHT>>},
          size : LargeSizes \cup ManyPacketSizes, seed : {0}]

\* An image that fills all POOL_SIZE buffers: the pool after it is the pool a
\* later call meets once the round-robin counter has wrapped.
WarmSize == (MAX_PACKET_SIZE - PACKET1_HEADER)
              + (POOL_SIZE - 1) * (MAX_PACKET_SIZE - SUBSEQUENT_HEADER)
WarmRun == generateImagePackets(4, ImageData(WarmSize, 5), FreshPool, 0)

InitPkt ==
  /\ \/ pool = FreshPool /\ next_free = 0
     \/ pool = WarmRun.pool /\ next_free = WarmRun.next_free
  /\ pktCall = NoCall
  /\ pktResult = <<>>
  /\ gen = <<>>
  /\ MonInit
  /\ SessIdle

\* one call of generateImagePackets
PktGenerateImage ==
  /\ pktCall = NoCall
  /\ \E c \in KeyCalls :
       LET r == generateImagePackets(c.keyIndex, ImageData(c.size, c.seed),
                                     pool, next_free)
       IN  /\ pktCall' = c
           /\ pktResult' = r.result
           /\ pool' = r.pool
           /\ next_free' = r.next_free
           /\ UNCHANGED <<gen, monVars, sessVars>>

\* one call of generateRawImagePackets
PktGenerateRaw ==
  /\ pktCall = NoCall
  /\ \E c \in RawCalls :
       LET r == generateRawImagePackets(c.rect[1], c.rect[2], c.rect[3], c.rect[4],
                                        ImageData(c.size, c.seed), pool, next_free)
       IN  /\ pktCall' = c
           /\ pktResult' = r.result
           /\ pool' = r.pool
           /\ next_free' = r.next_free
           /\ UNCHANGED <<gen, monVars, sessVars>>

NextPkt == PktGenerateImage \/ PktGenerateRaw

SpecPkt == InitPkt /\ [][NextPkt]_vars


-----------------------------------------------------------------------------
(* Claims about the packetizer (checked under SpecPkt) *)

CallMade == pktCall # NoCall
CallData == ImageData(pktCall.size, pktCall.seed)

\* What the protocol expects of packet k of an N-byte image: its header size,
\* where its payload starts in the image, and how many payload bytes it holds.
HeaderSizeOf(k) == IF k = 1 THEN 20 ELSE 5
PayloadStartOf(k) == IF k = 1 THEN 0 ELSE 4075 + (k - 2) * 4090
PayloadLenOf(k, n) ==
  LET left == n - PayloadStartOf(k)
  IN  IF left <= 0 THEN 0 ELSE Min(left, 4095 - HeaderSizeOf(k))

RECURSIVE SumPayload(_, _)
SumPayload(m, n) == IF m = 0 THEN 0 ELSE PayloadLenOf(m, n) + SumPayload(m - 1, n)

\* the target rectangle in a first packet's header: x, y, width, height, each
\* read as a big-endian 16-bit value from header bytes 9..16
RectOf(packet) ==
  <<packet[10] * 256 + packet[11], packet[12] * 256 + packet[13],
    packet[14] * 256 + packet[15], packet[16] * 256 + packet[17]>>

\* the rectangle the protocol assigns to key k, and the full-screen rectangle
KeyRect(k) == <<23 + (k % 3) * 158, 6 + (k \div 3) * 158, 118, 118>>
ScreenRect == <<23, 6, 434, 434>>

\* a and b (x, y, width, height) have no pixel in common; a lies inside b
RectsDisjoint(a, b) ==
  \/ a[1] + a[3] <= b[1] \/ b[1] + b[3] <= a[1]
  \/ a[2] + a[4] <= b[2] \/ b[2] + b[4] <= a[2]
RectInside(a, b) ==
  /\ b[1] <= a[1] /\ a[1] + a[3] <= b[1] + b[3]
  /\ b[2] <= a[2] /\ a[2] + a[4] <= b[2] + b[4]

\* C11: the rectangle written into the first packet header for key k is
\* x = 23 + (k mod 3) * 158, y = 6 + (k div 3) * 158, 118 x 118, big-endian;
\* it shares no pixel with the rectangle of any other key and lies inside the
\* full-screen rectangle (23, 6, 434 x 434) that setScreenImage passes on,
\* which spans three keys and two gaps per axis.
C11_KeyGeometry ==
  /\ (CallMade /\ pktCall.op = "key") =>
       LET r == RectOf(pktResult[1])
       IN  /\ r = KeyRect(pktCall.keyIndex)
           /\ \A j \in KeyIndices \ {pktCall.keyIndex} : RectsDisjoint(r, KeyRect(j))
           /\ RectInside(r, ScreenRect)
  /\ (CallMade /\ pktCall.op = "raw"
        /\ pktCall.rect = <<23, 6, SCREEN_WIDTH, SCREEN_HEIGHT>>) =>
       RectOf(pktResult[1]) = ScreenRect
  /\ SCREEN_WIDTH = 3 * KEY_SIZE + 2 * GAP_SIZE
  /\ SCREEN_HEIGHT = 3 * KEY_SIZE + 2 * GAP_SIZE

\* the last key (row 2, column 2) has been packetized: its rectangle ends at
\* the right and lower edge of the screen rectangle
C11_Witness ==
  /\ CallMade
  /\ pktCall.op = "key"
  /\ pktCall.keyIndex = 8
  /\ RectOf(pktResult[1]) = <<339, 322, 118, 118>>

\* C7: the payload segments of the packets, in packet order, are the input
\* buffer (N bytes in all); every packet is 4095 bytes long and all bytes after
\* its payload are zero.
C7_PayloadPreserved ==
  CallMade =>
    LET n == pktCall.size
        m == Len(pktResult)
    IN  /\ SumPayload(m, n) = n
        /\ \A k \in 1..m :
             LET p == pktResult[k]
                 h == HeaderSizeOf(k)
                 c == PayloadLenOf(k, n)
             IN  /\ Len(p) = 4095
                 /\ SubSeq(p, h + 1, h + c)
                      = SubSeq(CallData, PayloadStartOf(k) + 1, PayloadStartOf(k) + c)
                 /\ \A i \in (h + c + 1)..4095 : p[i] = 0

\* a three-packet image was packetized into buffers that held an earlier image
C7_Witness ==
  /\ CallMade
  /\ pktCall.size = 8166
  /\ Len(pktResult) = 3
  /\ pool[3][4095] # 0

\* C8: the packetizer returns 1 + ceil(max(0, N - 4075) / 4090) packets.
C8_PacketCount ==
  CallMade =>
    LET n == pktCall.size
        over == IF n > 4075 THEN n - 4075 ELSE 0
    IN  Len(pktResult) = 1 + ((over + 4089) \div 4090)

\* the smallest image that needs a second packet
C8_Witness ==
  /\ CallMade
  /\ pktCall.size = 4076
  /\ Len(pktResult) = 2

\* C9: the first packet's sequence-control byte has bit 0x80, the last
\* packet's has bit 0x40, and a single packet has both.
C9_SequenceFlags ==
  CallMade =>
    LET m == Len(pktResult)
    IN  /\ BitAnd(pktResult[1][5], 128) = 128
        /\ BitAnd(pktResult[m][5], 64) = 64
        /\ m = 1 => BitAnd(pktResult[1][5], 192) = 192

\* a multi-packet sequence: first and last packet are different packets
C9_Witness ==
  /\ CallMade
  /\ Len(pktResult) = 3
  /\ pktResult[1][5] = 161
  /\ pktResult[3][5] = 99

\* C10: the big-endian 16-bit length field of the first packet (header bytes
\* 18 and 19) equals the payload size N, for every N the image writes accept.
C10_LengthFieldIsSize ==
  CallMade => pktResult[1][19] * 256 + pktResult[1][20] = pktCall.size


\* C34: for every key index 0..8 and every payload, generateImagePackets
\* returns the packet sequence generateRawImagePackets returns for the
\* rectangle x = 23 + (k mod 3) * 158, y = 6 + (k div 3) * 158, 118 x 118.
C34_KeyIsRawOnKeyRect ==
  (CallMade /\ pktCall.op = "key") =>
    pktResult = generateRawImagePackets(23 + (pktCall.keyIndex % 3) * 158,
                                        6 + (pktCall.keyIndex \div 3) * 158,
                                        118, 118, CallData, FreshPool, 0).result

\* key 5 (row 1, column 2) with a payload of three packets
C34_Witness ==
  /\ CallMade
  /\ pktCall.op = "key"
  /\ pktCall.keyIndex = 5
  /\ pktCall.size = 8166
  /\ Len(pktResult) = 3
  /\ RectOf(pktResult[1]) = <<339, 164, 118, 118>>

\* C35: in every packet sequence, of 32 and more packets too, bit 0x80 of
\* the sequence-control byte is set in the first packet only, bit 0x40 in the
\* last packet only, and no two packets carry the same sequence-control byte.
C35_SequenceByteUnambiguous ==
  CallMade =>
    LET m == Len(pktResult)
    IN  /\ \A k \in 1..m : (BitAnd(pktResult[k][5], 128) = 128) <=> (k = 1)
        /\ \A k \in 1..m : (BitAnd(pktResult[k][5], 64) = 64) <=> (k = m)
        /\ \A j \in 1..m, k \in 1..m : j # k => pktResult[j][5] # pktResult[k][5]

-----------------------------------------------------------------------------
(* Claims about the input decoder (checked under SpecDecoder) *)

\* a decoder pass has just run on lastReport
PassDone == lastReport # NoReport

NavShaped(r) == Len(r) >= 6 /\ SubSeq(r, 1, 4) = <<17, 255, 11, 0>>
GridShaped(r) == Len(r) >= 7 /\ SubSeq(r, 1, 4) = <<19, 255, 2, 0>> /\ r[6] = 1

\* the 0-based indices a grid report lists before its zero terminator
DecodedSet(r) ==
  {r[i] - 1 : i \in {j \in 7..Len(r) : /\ r[j] \in 1..9
                                       /\ \A k \in 7..j : r[k] # 0}}

PressPositions == {i \in 1..Len(events) : events[i].pressed}
ReleasePositions == {i \in 1..Len(events) : ~events[i].pressed}

\* C4: on a grid-shaped report decoding to C, with P pressed before, exactly
\* one press event per index of C \ P and one release event per index of
\* P \ C are delivered, presses before releases, and the set becomes C.
C4_GridDiff ==
  (PassDone /\ GridShaped(lastReport)) =>
    LET C == DecodedSet(lastReport)
        P == prevPressed
    IN  /\ {events[i].button_code : i \in PressPositions} = C \ P
        /\ Cardinality(PressPositions) = Cardinality(C \ P)
        /\ {events[i].button_code : i \in ReleasePositions} = P \ C
        /\ Cardinality(ReleasePositions) = Cardinality(P \ C)
        /\ \A i \in PressPositions : \A j \in ReleasePositions : i < j
        /\ \A i \in 1..Len(events) :
             events[i].type = IF events[i].pressed THEN "BUTTON_PRESS"
                                                   ELSE "BUTTON_RELEASE"
        /\ pressed_buttons = C

\* with {0,1} held, a report listing raw codes 2 and 3: press(2), release(0)
C4_Witness ==
  /\ PassDone /\ GridShaped(lastReport)
  /\ prevPressed = {0, 1}
  /\ pressed_buttons = {1, 2}
  /\ events = <<ButtonEvent(2, TRUE), ButtonEvent(0, FALSE)>>

\* C5: a navigation press report emits press(code) and records the code; a
\* navigation release report emits release(recorded code) and clears the
\* record; a release report with nothing recorded emits nothing.
C5_NavPressRelease ==
  (PassDone /\ NavShaped(lastReport)) =>
    LET r == lastReport
    IN  /\ (r[5] = 1 /\ r[6] \in {161, 162}) =>
             /\ events = <<ButtonEvent(r[6], TRUE)>>
             /\ last_p_button = r[6]
        /\ (r[5] = 0 /\ prevLastP # 0) =>
             /\ events = <<ButtonEvent(prevLastP, FALSE)>>
             /\ last_p_button = 0
        /\ (r[5] = 0 /\ prevLastP = 0) =>
             /\ events = <<>>
             /\ last_p_button = 0

\* a release report after a press of 0xA1: release(0xA1), record cleared
C5_Witness ==
  /\ PassDone /\ NavShaped(lastReport)
  /\ lastReport[5] = 0
  /\ prevLastP = 161
  /\ events = <<ButtonEvent(161, FALSE)>>
  /\ last_p_button = 0

\* C6: a report with the navigation signature (at least 6 bytes) is never
\* decoded as a grid report: the pressed set is unchanged and no event for a
\* grid index is delivered, whatever its other bytes are.
C6_NavNeverGrid ==
  (PassDone /\ NavShaped(lastReport)) =>
    /\ pressed_buttons = prevPressed
    /\ \A i \in 1..Len(events) : events[i].button_code \notin 0..8

\* a navigation press whose bytes 6.. carry button codes, with a key held
C6_Witness ==
  /\ PassDone /\ NavShaped(lastReport)
  /\ Len(lastReport) >= 8
  /\ lastReport[7] \in 1..9 /\ lastReport[8] \in 1..9
  /\ prevPressed = {0}
  /\ pressed_buttons = {0}
  /\ events = <<ButtonEvent(162, TRUE)>>

\* C25: grid decoding is idempotent on a repeated report: a grid-shaped
\* report that decodes to the set already pressed delivers no event and
\* leaves the set as it was.
C25_GridIdempotent ==
  (PassDone /\ GridShaped(lastReport) /\ DecodedSet(lastReport) = prevPressed) =>
    /\ events = <<>>
    /\ pressed_buttons = prevPressed

\* keys 0 and 1 are held and the report lists raw codes 1 and 2 again
C25_Witness ==
  /\ PassDone /\ GridShaped(lastReport)
  /\ prevPressed = {0, 1}
  /\ DecodedSet(lastReport) = {0, 1}
  /\ pressed_buttons = {0, 1}
  /\ events = <<>>

\* C26: the pressed set holds only indices 0..8 in every state, and a grid
\* report delivers events for indices 0..8 only: raw codes outside 1..9 are
\* skipped.
C26_PressedInRange ==
  /\ pressed_buttons \subseteq 0..8
  /\ (PassDone /\ GridShaped(lastReport)) =>
       \A i \in 1..Len(events) : events[i].button_code \in 0..8

\* a grid report listing raw code 10 and then raw code 2: only key 1 is pressed
C26_Witness ==
  /\ PassDone /\ GridShaped(lastReport)
  /\ Len(lastReport) >= 8
  /\ lastReport[7] = 10 /\ lastReport[8] = 2
  /\ prevPressed = {}
  /\ pressed_buttons = {1}
  /\ events = <<ButtonEvent(1, TRUE)>>

\* C27: a report that is neither navigation-shaped nor grid-shaped delivers
\* no event and leaves the pressed set and the last navigation button
\* unchanged; the thread is at the end of the loop body, not terminated.
C27_UnrecognizedIgnored ==
  (PassDone /\ ~NavShaped(lastReport) /\ ~GridShaped(lastReport)) =>
    /\ events = <<>>
    /\ pressed_buttons = prevPressed
    /\ last_p_button = prevLastP
    /\ monitor_thread = "check" /\ ~aborted

\* a six-byte report with the grid signature (too short for the grid branch)
\* read while key 0 and navigation button 0xA1 are held
C27_Witness ==
  /\ PassDone
  /\ Len(lastReport) = 6 /\ SubSeq(lastReport, 1, 4) = GridSignature
  /\ prevPressed = {0} /\ prevLastP = 161
  /\ pressed_buttons = {0} /\ last_p_button = 161
  /\ events = <<>>
  /\ monitor_thread = "check"

\* the positions in evs of the events for grid index i
EventsFor(evs, i) == {j \in 1..Len(evs) : evs[j].button_code = i}

\* the events of one decoder pass are edges of the pressed set: per grid
\* index at most one event, a press only for an index that was not in the
\* set and is in it afterwards, a release only for one that was in it and is
\* not afterwards, and no event for an index whose membership stays
EdgesOfPass ==
  (monitor_thread = "loop" /\ monitor_thread' = "check") =>
    \A i \in 0..8 :
      /\ Cardinality(EventsFor(events', i)) <= 1
      /\ \A j \in EventsFor(events', i) :
           IF events'[j].pressed
           THEN i \notin pressed_buttons /\ i \in pressed_buttons'
           ELSE i \in pressed_buttons /\ i \notin pressed_buttons'
      /\ EventsFor(events', i) = {} => (i \in pressed_buttons <=> i \in pressed_buttons')

\* C36 as stated: within each monitoring run the grid events of every index
\* alternate press, release, press, ... starting with a press, and the
\* indices whose last event is a press are exactly the pressed set; so a
\* run starts with no index in the set, each pass emits exactly the edges of
\* the set, and the set changes in a pass only.
C36_EdgeTriggeredPerRun ==
  [][/\ EdgesOfPass
     /\ ~(monitor_thread = "loop" /\ monitor_thread' = "check")
          => pressed_buttons' = pressed_buttons
     /\ (monitor_thread # "open" /\ monitor_thread' = "open")
          => pressed_buttons = {}]_vars

\* C36, amended: over the life of the device object, across monitoring
\* runs, the grid events of every index alternate press, release, press, ...
\* and the indices whose last event is a press are exactly the pressed set:
\* each pass emits exactly the edges of the set, and the set changes in a
\* pass only (a later run may begin with the release of a button that was
\* held when the previous run was stopped).
C36_EdgeTriggered ==
  [][/\ EdgesOfPass
     /\ ~(monitor_thread = "loop" /\ monitor_thread' = "check")
          => pressed_buttons' = pressed_buttons]_vars

\* key 0 is held from an earlier pass (of this run or of the one before); the pass
\* releases key 0 and presses key 1
C36_Witness ==
  /\ PassDone /\ GridShaped(lastReport)
  /\ prevPressed = {0}
  /\ pressed_buttons = {1}
  /\ events = <<ButtonEvent(1, TRUE), ButtonEvent(0, FALSE)>>

-----------------------------------------------------------------------------
(* Claims about event delivery (checked under SpecDelivery) *)

\* C28: a report is read only when the monitoring thread is at its loop with
\* no event of the previous report outstanding; events reach the callback
\* one per step, by the monitoring thread, in the order the pass emits them,
\* and never while a callback is still running; the timestamp of each
\* delivered event is at least the timestamp of every event delivered before.
C28_SynchronousInOrder ==
  [][/\ (lastReport' # lastReport /\ lastReport' # NoReport)
          => monitor_thread = "loop" /\ pending = <<>>
     /\ (events' # events /\ events' # <<>>)
          => /\ monitor_thread = "emit" /\ monitor_thread' = "callback"
             /\ events' = Append(events, Head(pending))
             /\ Len(stamps') = Len(events')
             /\ stamps'[Len(stamps')] >= last_timestamp
             /\ last_timestamp' = stamps'[Len(stamps')]
             /\ \A i \in 1..Len(stamps) : stamps[i] <= stamps'[Len(stamps')]
     /\ monitor_thread = "callback" => UNCHANGED <<events, stamps, lastReport>>]_vars

\* with key 0 held, a report listing key 1 alone: the callback for press(1)
\* has returned and the callback for release(0) is running, a millisecond
\* or more later
C28_Witness ==
  /\ monitor_thread = "callback"
  /\ prevPressed = {0}
  /\ events = <<ButtonEvent(1, TRUE), ButtonEvent(0, FALSE)>>
  /\ pending = <<ButtonEvent(0, FALSE)>>
  /\ stamps[1] < stamps[2]
  /\ last_timestamp = stamps[2]

-----------------------------------------------------------------------------
(* Claims about monitoring start, stop and teardown (under SpecDecoder) *)

C18_TeardownJoinsBeforeClose ==
  /\ monCaller \in {"closed", "destroyed"} => monitor_thread = "none"
  /\ monCaller = "destroyed" => ~aborted

\* C19: when stopMonitoring returns, the monitoring worker has exited and
\* has been joined, also when it had ended on its own before the call.
C19_StopMonitoringJoins ==
  monCaller = "stop_return" => monitor_thread = "none"

\* C37: a monitoring worker is started only by a startMonitoring call made
\* with a callback registered and monitoring not active, and only when the
\* previous worker has been joined (the thread object holds no thread); a
\* call that passes the guard starts exactly that worker.
C37_OneMonitoringWorker ==
  [][/\ (monitor_thread' = "open" /\ monitor_thread # "open")
          => (event_callback_ /\ ~monitoring /\ monitor_thread = "none")
     /\ (monitoring' /\ ~monitoring)
          => (monitor_thread = "none" /\ monitor_thread' = "open" /\ ~aborted')
     /\ (monitoring \/ ~event_callback_)
          => (monitor_thread' = monitor_thread \/ monitor_thread # "none")]_vars

\* C40: pressed_buttons and last_p_button change in a decoder pass only;
\* starting, stopping and joining the monitoring thread leave them as they
\* are.  So every pass, the first one after a restart too, releases each
\* index of the set it finds that a grid report does not list, and a
\* navigation release report releases the recorded navigation button.
C40_DecoderStateKept ==
  [][LET pass == monitor_thread = "loop" /\ monitor_thread' = "check"
         r == lastReport'
     IN  /\ ~pass => /\ pressed_buttons' = pressed_buttons
                     /\ last_p_button' = last_p_button
         /\ (pass /\ GridShaped(r)) =>
              \A i \in pressed_buttons \ DecodedSet(r) :
                \E j \in 1..Len(events') : events'[j] = ButtonEvent(i, FALSE)
         /\ (pass /\ NavShaped(r) /\ r[5] = 0 /\ last_p_button # 0) =>
              /\ events' = <<ButtonEvent(last_p_button, FALSE)>>
              /\ last_p_button' = 0]_vars

\* a new monitoring thread has been started while key 0 and navigation
\* button 0xa1, pressed in an earlier run, are still recorded
C40_Witness ==
  /\ monitor_thread = "open"
  /\ monitoring
  /\ pressed_buttons = {0}
  /\ last_p_button = 161

-----------------------------------------------------------------------------
(* Claims about the session: image updates, animation tasks and stops *)

Targets == {KeyTarget(k) : k \in ValidKeys} \cup {SCREEN}

\* the KeyAnimation objects that exist for a target
TasksOf(target) == {s \in Slots : task[s] # NoTask /\ task[s].target = target}

\* the threads of a target: started and not yet joined / the running ones
ThreadsOf(target) == {s \in Slots : wtarget[s] = target}
LiveWorkersOf(target) == {s \in ThreadsOf(target) : Live(s)}

\* C1: for every interleaving of animation workers and caller one-shot image
\* writes, the packets of one image update reach the channel contiguously: no
\* later packet of an update arrives behind a packet of another update.
C1_UpdatesContiguous == ~channel.torn

\* C2: at any time there is at most one animation task and at most one live
\* worker per target; when a set*Gif call has started the new worker of an
\* occupied target, the old worker has been joined (no other thread of that
\* target is left), so old and new never run concurrently.
C2_OneTaskPerTarget ==
  /\ \A g \in Targets :
       /\ Cardinality(TasksOf(g)) <= 1
       /\ Cardinality(LiveWorkersOf(g)) <= 1
  /\ cpc = "store" => ThreadsOf(cop.target) = {cop.anim}

\* a set*Gif call on an occupied target has stopped the old task and started
\* the new worker, which is running
C2_Witness ==
  /\ cpc = "store"
  /\ cop.stopped
  /\ Live(cop.anim)
  /\ task[cop.anim].running

StopOps == {"stopKeyAnimation", "stopScreenAnimation", "stopAllAnimations"}

\* the targets a returned stop call has stopped
StoppedTargets ==
  IF cop.name = "stopAllAnimations" THEN Targets ELSE {cop.target} \cap Targets

\* C3: when stopKeyAnimation, stopScreenAnimation or stopAllAnimations has
\* returned, every stopped target has no task and no thread left; and a thread
\* only ever writes a frame for a task that is stored for its target (or is
\* about to be stored by the running set*Gif call), so no frame of a stopped
\* target reaches the channel after the return.
C3_StopJoinsWorker ==
  /\ (cpc = "return" /\ cop.name \in StopOps) =>
       \A g \in StoppedTargets :
         TaskOf(g) = 0 /\ TasksOf(g) = {} /\ ThreadsOf(g) = {}
  /\ \A s \in Slots :
       tx[s].pc # "off" =>
         /\ wpc[s] = "tx"
         /\ TaskOf(wtarget[s]) = s \/ (cpc = "store" /\ cop.anim = s)

\* stopKeyAnimation has returned after stopping a task, while the animation
\* of another target goes on
C3_Witness ==
  /\ cpc = "return"
  /\ cop.name = "stopKeyAnimation"
  /\ cop.stopped
  /\ \E s \in Slots : Live(s)

\* the caller enters an operation in this step
CallStarts == cpc = "idle" /\ cpc' # "idle"

\* the step leaves the channel, its mode and every animation task alone
NoIoNoTaskChange ==
  UNCHANGED <<channel, fdNonblock, hidraw_fd, tx, task, wpc, wtarget, animations,
              screen_animation, writeFailures>>

\* C12: a per-key operation called with a key index outside 0..8 returns at
\* once, setKeyImage and setKeyGif / setKeyGifFromFile with failure; the call
\* writes nothing to the channel, leaves its mode alone and stops, creates or
\* replaces no animation task.
C12_InvalidKeyRejected ==
  [][\A k \in KeyInputs \ ValidKeys :
       (CallStarts /\ cop'.target = KeyTarget(k)) =>
         /\ cpc' = "return"
         /\ cop'.name \in {"setKeyImage", "setKeyGif"} => ~cop'.ret
         /\ NoIoNoTaskChange]_vars

\* setKeyGif(9, ...) has returned failure while the animation of key 0 runs on
C12_Witness ==
  /\ cpc = "return"
  /\ cop.name = "setKeyGif"
  /\ cop.target = KeyTarget(9)
  /\ ~cop.ret
  /\ TaskOf(KeyTarget(0)) # 0
  /\ Live(TaskOf(KeyTarget(0)))

ImageAndGifOps == {"setKeyImage", "setRawImage", "setKeyGif", "setScreenGif"}

\* C13: on a session that is not initialized every image write and every
\* animation start returns failure at once: nothing is written to the
\* channel and no animation task is created or stopped.
C13_UninitializedRejected ==
  [][(CallStarts /\ ~initialized /\ cop'.name \in ImageAndGifOps) =>
       /\ cpc' = "return"
       /\ ~cop'.ret
       /\ NoIoNoTaskChange]_vars

\* setScreenGif has returned failure on a session whose channel path is known
\* but which is not initialized
C13_Witness ==
  /\ cpc = "return"
  /\ cop.name = "setScreenGif"
  /\ ~cop.ret
  /\ ~initialized
  /\ ~hidraw_path_empty

\* C14: an image write with an empty payload on an initialized session is
\* rejected before any I/O: the caller never enters the transmit step with
\* it, and the call returns failure.
C14_EmptyPayloadRejected ==
  (cop.name \in {"setKeyImage", "setRawImage"} /\ cop.size = 0) =>
    /\ tx[Caller].pc = "off"
    /\ cpc = "return" => ~cop.ret

\* C16: initialize on an initialized session returns success without opening
\* the channel or writing a report, and leaves handle, initialized flag and
\* channel as they are.
C16_InitializeIdempotent ==
  [][(CallStarts /\ initialized /\ cop'.name = "initialize") =>
       /\ cpc' = "return"
       /\ cop'.ret
       /\ cop'.io = <<>>
       /\ NoIoNoTaskChange
       /\ UNCHANGED initialized]_vars

\* a second initialize has returned success without I/O while an animation
\* started after the first one is running
C16_Witness ==
  /\ cpc = "return"
  /\ cop.name = "initialize"
  /\ cop.ret
  /\ cop.io = <<>>
  /\ initialized
  /\ \E s \in Slots : Live(s)

\* C17: when initialize has gone to the channel, it returns success and the
\* session is initialized only if the open and the writes of both reports
\* succeeded; if one of them failed it returns failure and the session stays
\* uninitialized.
C17_InitializeChecksWrites ==
  (cpc = "return" /\ cop.name = "initialize" /\ cop.io # <<>>) =>
    LET allOk == Len(cop.io) = 3 /\ \A i \in 1..Len(cop.io) : cop.io[i].ok
    IN  /\ cop.ret => allOk
        /\ ~allOk => ~cop.ret /\ ~initialized

\* C20: once a task's run flag is false it stays false, and its worker starts
\* no further frame: a worker inside a frame write finishes that frame and
\* its delay and comes back to the top of the loop, and from the top of the
\* loop it can only exit. So at most one frame and one sleep follow a stop
\* request.
C20_CancelWithinOneFrame ==
  [][\A s \in Slots :
       (Live(s) /\ task[s] # NoTask /\ ~task[s].running) =>
         /\ wpc[s] = "top" => wpc'[s] \in {"top", "exited"}
         /\ wpc[s] = "tx" => wpc'[s] \in {"tx", "top"}
         /\ task'[s] # NoTask => ~task'[s].running]_vars

\* a stop request has cleared the run flag of a looping task whose worker is
\* inside a frame write; the caller waits in join
C20_Witness ==
  /\ cpc = "join"
  /\ \E s \in Slots :
       /\ s = TaskOf(cop.target)
       /\ task[s].loop
       /\ ~task[s].running
       /\ wpc[s] = "tx"
       /\ tx[s].pc = "writev"

\* C24: an image update returns success exactly when the byte count its last
\* writev reported equals packet_count * 4095; -1 and every other count
\* return failure.
C24_SuccessIffAllBytes ==
  [][(cpc = "tx" /\ cpc' = "return")
       => cop'.ret = (tx[Caller].totalWritten
                        = NumPackets(cop.size) * MAX_PACKET_SIZE)]_vars

\* setKeyImage with a two-packet payload has returned failure after the
\* device cut its write short, with no animation around
C24_Witness ==
  /\ cpc = "return" /\ cop.name = "setKeyImage" /\ cop.size = 5000
  /\ ~cop.ret
  /\ writeFailures = 1 /\ UsedSlots = {}
  /\ channel.last = <<Caller>>

\* C23: an animation worker whose frame write failed stops itself: when it
\* comes back from a failed setKeyImage / setScreenImage its run flag is
\* cleared, so it transmits no further frame.
C23_WorkerStopsOnWriteFailure ==
  [][\A s \in Slots :
       (wpc[s] = "tx" /\ wpc'[s] = "top" /\ ~TxResult(s)) => ~task'[s].running]_vars

\* C30: the first scatter write of an image update is made with the
\* descriptor non-blocking; a second one is made only after the first
\* reported would-block, with the descriptor blocking, and is the last; after
\* any other result of the first write the update returns without writing
\* again.
C30_OneFallbackOnly ==
  [][\A t \in Threads :
       /\ (tx[t].pc = "writev" /\ tx'[t] # tx[t]) => fdNonblock
       /\ (tx[t].pc # "fallback" /\ tx'[t].pc = "fallback")
            => tx[t].pc = "restore" /\ tx[t].totalWritten < 0 /\ tx[t].wouldBlock
       /\ (tx[t].pc = "fallback" /\ tx'[t] # tx[t]) => ~fdNonblock
       /\ (tx[t].pc = "fallback" /\ tx'[t].pc # "fallback") => tx'[t].pc = "done"
       /\ (tx[t].pc = "restore" /\ tx'[t].pc # "restore" /\ ~tx[t].wouldBlock)
            => tx'[t].pc \in {"done", "failed"}]_vars

-----------------------------------------------------------------------------
(* Claims about animations of several frames (checked under SpecAnim) *)

\* C21: a worker starts at frame 0 with its run flag set; each display sends
\* frames[current_frame], an existing frame; after the display and the delay
\* the index goes up by one, or at the last frame back to 0 when looping and
\* otherwise the worker clears its own run flag; nothing else moves the
\* index, and the worker leaves its loop only with the run flag clear.
C21_FramesInOrder ==
  [][\A s \in Slots :
       /\ (wpc[s] = "none" /\ wpc'[s] = "top")
            => task'[s].current_frame = 0 /\ task'[s].running
       /\ (wpc[s] = "top" /\ wpc'[s] = "tx")
            => /\ task[s].current_frame < task[s].nframes
               /\ tx'[s].size = FrameBytes(task[s].current_frame)
               /\ task'[s] = task[s]
       /\ (wpc[s] = "tx" /\ wpc'[s] = "top")
            => IF task[s].current_frame + 1 < task[s].nframes
               THEN /\ task'[s].current_frame = task[s].current_frame + 1
                    /\ task'[s].running = task[s].running
               ELSE IF task[s].loop
                    THEN /\ task'[s].current_frame = 0
                         /\ task'[s].running = task[s].running
                    ELSE ~task'[s].running
       /\ (wpc[s] # "none" /\ wpc'[s] # "none"
             /\ task'[s].current_frame # task[s].current_frame)
            => wpc[s] = "tx" /\ wpc'[s] = "top"
       /\ (wpc[s] = "top" /\ wpc'[s] = "exited") => ~task[s].running]_vars

\* a two-frame animation without loop has shown both frames and ended itself
\* while a looping two-frame animation is sending its second frame
C21_Witness ==
  \E s \in Slots, u \in Slots :
    /\ task[s].nframes = 2 /\ ~task[s].loop
    /\ task[s].current_frame = 2 /\ ~task[s].running /\ wpc[s] = "exited"
    /\ TaskOf(task[s].target) = s
    /\ task[u].nframes = 2 /\ task[u].loop
    /\ task[u].current_frame = 1 /\ wpc[u] = "tx" /\ tx[u].pc = "writev"
    /\ cpc = "idle"

\* C22: a set*Gif call whose decode fails or yields no frame returns failure
\* from the decode step without creating a task or starting a thread; as the
\* target's prior task was stopped, joined and erased before, the target has
\* no task and no worker thread then.
C22_FailedStartLeavesNoTask ==
  [][(cpc = "decode" /\ cop.nframes = 0 /\ cpc' # "decode")
       => /\ cpc' = "return" /\ ~cop'.ret
          /\ TaskOf(cop.target) = 0
          /\ TasksOf(cop.target) = {}
          /\ ThreadsOf(cop.target) = {}
          /\ UNCHANGED <<task, wpc, wtarget, animations, screen_animation>>]_vars

\* setKeyGif with an undecodable GIF has returned after stopping the key's
\* running animation, while another animation goes on
C22_Witness ==
  /\ cpc = "return" /\ cop.name = "setKeyGif"
  /\ initialized /\ cop.stopped
  /\ ~cop.ret
  /\ TaskOf(cop.target) = 0
  /\ \E s \in Slots : Live(s)

\* C29: stopAllAnimations first stops the screen task alone; it asks a key
\* task to stop only when the screen task and its thread are gone and the
\* thread of every key entry before it has been joined; when it returns no
\* task, map entry or thread is left.
C29_StopAllInOrder ==
  [][/\ (cpc = "idle" /\ cpc' # "idle" /\ cop'.name = "stopAllAnimations")
          => \A s \in Slots : task[s].target # SCREEN => task'[s] = task[s]
     /\ (cpc = "all_keys" /\ cpc' = "all_join")
          => /\ screen_animation = 0 /\ ThreadsOf(SCREEN) = {}
             /\ \A j \in ValidKeys :
                  (j < cop'.cursor /\ animations[j] # 0)
                    => wpc[animations[j]] = "joined"
             /\ \A s \in Slots :
                  s # animations[cop'.cursor] => task'[s] = task[s]
     /\ (cpc' = "return" /\ cop'.name = "stopAllAnimations")
          => /\ screen_animation' = 0
             /\ animations' = [k \in ValidKeys |-> 0]
             /\ task' = [s \in Slots |-> NoTask]
             /\ wpc' = [s \in Slots |-> "none"]]_vars

\* stopAllAnimations has joined the thread of key 0 and now waits for the
\* running thread of key 8
C29_Witness ==
  /\ cpc = "all_join" /\ cop.name = "stopAllAnimations" /\ cop.cursor = 8
  /\ animations[0] # 0 /\ wpc[animations[0]] = "joined"
  /\ Live(animations[8])

-----------------------------------------------------------------------------
(* Two threads packetizing on the one static packet_pool (SpecPool): the   *)
(* caller inside setKeyImage and an animation thread inside setScreenImage *)

Packers == {Caller, 1}

PoolKeyCalls == [op : {"key"}, keyIndex : {0, 8}, size : {1}, seed : {0}]
PoolRawCalls == [op : {"raw"}, rect : {<<23, 6, SCREEN_WIDTH, SCREEN_HEIGHT>>},
                 size : {8166, 65535}, seed : {3}]

\* the locals of a packetizer call: idx is the pool buffer its reference
\* "packet" is bound to, -1 outside acquire .. push_back
GenIdle == [pc |-> "idle", call |-> NoCall, result |-> <<>>, idx |-> -1,
            remainingBytes |-> 0, currentOffset |-> 0, part |-> 0]

GenData(t) == ImageData(gen[t].call.size, gen[t].call.seed)

\* byteCount1 for the first packet, byteCount of the chunk loop after it
GenByteCount(t) ==
  IF gen[t].part = 1
  THEN Min(gen[t].call.size, MAX_PACKET_SIZE - PACKET1_HEADER)
  ELSE IF gen[t].call.op = "key" THEN ImageChunkBytes(gen[t].remainingBytes)
       ELSE RawChunkBytes(gen[t].remainingBytes)

\* entry of the packetizer up to the first acquire
GenEnter(t, c) ==
  /\ gen[t].pc = "idle"
  /\ gen' = [gen EXCEPT ![t] = [GenIdle EXCEPT !.pc = "acquire", !.call = c, !.part = 1,
                                               !.remainingBytes = c.size]]
  /\ UNCHANGED <<pool, next_free, pktCall, pktResult>>

\* "auto& packet = packet_pool.acquire()": next_free.fetch_add(1) % POOL_SIZE
GenAcquire(t) ==
  /\ gen[t].pc = "acquire"
  /\ gen' = [gen EXCEPT ![t].pc = "memset", ![t].idx = Acquire(next_free)]
  /\ next_free' = (next_free + 1) % POOL_SIZE
  /\ UNCHANGED <<pool, pktCall, pktResult>>

\* memset(packet.data(), 0, MAX_PACKET_SIZE)
GenMemset(t) ==
  /\ gen[t].pc = "memset"
  /\ pool' = [pool EXCEPT ![gen[t].idx] = Memset(@)]
  /\ gen' = [gen EXCEPT ![t].pc = "header"]
  /\ UNCHANGED <<next_free, pktCall, pktResult>>

\* memcpy of packet1_header (first packet) or of packet_header with its
\* sequence-control byte (chunk loop) into the buffer
GenHeader(t) ==
  /\ gen[t].pc = "header"
  /\ LET c == gen[t].call
         hdr == IF gen[t].part = 1
                THEN IF c.op = "key" THEN ImagePacket1Header(c.keyIndex, c.size)
                     ELSE RawPacket1Header(c.rect[1], c.rect[2], c.rect[3], c.rect[4],
                                           c.size)
                ELSE PACKET_BASE_HEADER
                       \o <<generateWritePacketByte(gen[t].part, FALSE,
                              gen[t].remainingBytes - GenByteCount(t) = 0)>>
     IN  pool' = [pool EXCEPT ![gen[t].idx] = Memcpy(@, 0, hdr, 0, Len(hdr))]
  /\ gen' = [gen EXCEPT ![t].pc = IF GenByteCount(t) > 0 THEN "data" ELSE "push"]
  /\ UNCHANGED <<next_free, pktCall, pktResult>>

\* memcpy of the payload bytes behind the header
GenPayload(t) ==
  /\ gen[t].pc = "data"
  /\ LET hdrLen == IF gen[t].part = 1 THEN PACKET1_HEADER ELSE SUBSEQUENT_HEADER
     IN  pool' = [pool EXCEPT ![gen[t].idx] =
                    Memcpy(@, hdrLen, GenData(t), gen[t].currentOffset, GenByteCount(t))]
  /\ gen' = [gen EXCEPT ![t].pc = "push"]
  /\ UNCHANGED <<next_free, pktCall, pktResult>>

\* result.push_back(packet) copies the buffer; then the loop variables move
\* on and the loop test decides between the next acquire and the return
GenPush(t) ==
  /\ gen[t].pc = "push"
  /\ LET byteCount == GenByteCount(t)
         left == gen[t].remainingBytes - byteCount
     IN  gen' = [gen EXCEPT ![t].pc = IF left > 0 THEN "acquire" ELSE "done",
                            ![t].result = Append(@, pool[gen[t].idx]),
                            ![t].idx = -1,
                            ![t].remainingBytes = left,
                            ![t].currentOffset = @ + byteCount,
                            ![t].part = @ + 1]
  /\ UNCHANGED <<pool, next_free, pktCall, pktResult>>

NextPool ==
  \/ \E c \in PoolKeyCalls : GenEnter(Caller, c) /\ UNCHANGED <<monVars, sessVars>>
  \/ \E c \in PoolRawCalls : GenEnter(1, c) /\ UNCHANGED <<monVars, sessVars>>
  \/ \E t \in Packers : GenAcquire(t) /\ UNCHANGED <<monVars, sessVars>>
  \/ \E t \in Packers : GenMemset(t) /\ UNCHANGED <<monVars, sessVars>>
  \/ \E t \in Packers : GenHeader(t) /\ UNCHANGED <<monVars, sessVars>>
  \/ \E t \in Packers : GenPayload(t) /\ UNCHANGED <<monVars, sessVars>>
  \/ \E t \in Packers : GenPush(t) /\ UNCHANGED <<monVars, sessVars>>

InitPool ==
  /\ pool = FreshPool
  /\ next_free = 0
  /\ pktCall = NoCall
  /\ pktResult = <<>>
  /\ gen = [t \in Packers |-> GenIdle]
  /\ MonInit
  /\ SessIdle

SpecPool == InitPool /\ [][NextPool]_vars

\* the packets the call returns when it runs alone
GenExpected(c) ==
  IF c.op = "key"
  THEN generateImagePackets(c.keyIndex, ImageData(c.size, c.seed), FreshPool, 0).result
  ELSE generateRawImagePackets(c.rect[1], c.rect[2], c.rect[3], c.rect[4],
                               ImageData(c.size, c.seed), FreshPool, 0).result

\* thread t is between acquire and push_back of a buffer
GenHolds(t) == gen[t].idx >= 0

\* C32: two threads never hold the same pool buffer between acquire and
\* push_back, and the packets a packetizer call returns are the packets of
\* its own image (what the call returns when it runs alone).
C32_BuffersNotShared ==
  /\ \A t, u \in Packers :
       (t # u /\ GenHolds(t) /\ GenHolds(u)) => gen[t].idx # gen[u].idx
  /\ \A t \in Packers : gen[t].pc = "done" => gen[t].result = GenExpected(gen[t].call)

-----------------------------------------------------------------------------
(* Claims about the shared descriptor's blocking mode (checked under Spec) *)

\* C31: when no thread is inside an image update, the descriptor is in the
\* blocking mode it had before the updates (O_NONBLOCK clear), and every
\* fallback write is made with the descriptor blocking.
C31_BlockingModeRestored ==
  /\ (\A t \in Threads : ~InTransmit(t)) => ~fdNonblock
  /\ \A t \in Threads : tx[t].pc = "fallback" => ~fdNonblock

-----------------------------------------------------------------------------
(* More claims about animations (checked under SpecAnim) *)

\* C33: whenever an animation thread takes frames[current_frame], and for as
\* long as it uses that frame, 0 <= current_frame < frames.size() holds, with
\* and without loop and whatever stop requests run beside it; current_frame
\* of a task changes only in a step of the task's own thread.
C33_FrameIndexInRange ==
  [][\A s \in Slots :
       /\ ((wpc[s] = "top" /\ wpc'[s] = "tx") \/ wpc[s] = "tx")
            => (0 <= task[s].current_frame /\ task[s].current_frame < task[s].nframes)
       /\ (task[s] # NoTask /\ task'[s] # NoTask
             /\ task'[s].current_frame # task[s].current_frame)
            => (wpc[s] = "tx" /\ wpc'[s] = "top" /\ cpc' = cpc /\ cop' = cop)]_vars

\* a stop request has cleared the run flag of a task without loop while its
\* thread is writing its last frame, and a looping task is on its last frame
\* as well
C33_Witness ==
  /\ cpc = "join"
  /\ \E s \in Slots, u \in Slots :
       /\ s = TaskOf(cop.target)
       /\ ~task[s].loop /\ ~task[s].running /\ wpc[s] = "tx"
       /\ task[s].nframes = 2 /\ task[s].current_frame = 1
       /\ task[u].loop /\ task[u].running /\ wpc[u] = "tx"
       /\ task[u].nframes = 2 /\ task[u].current_frame = 1

\* the operations that start or stop the animation of one target
SingleTargetOps == {"stopKeyAnimation", "setKeyGif", "stopScreenAnimation", "setScreenGif"}

\* C38: every step of stopKeyAnimation(k) / setKeyGif(k, ...) leaves the
\* entry, the task and the thread of every target other than key k as they
\* are, and every step of stopScreenAnimation / setScreenGif those of every
\* key: a full-screen start stops no per-key animation and a per-key start
\* does not stop the full-screen one.
C38_TargetsIndependent ==
  [][(cpc' # cpc \/ cop' # cop) =>
       LET op == IF cpc = "idle" THEN cop' ELSE cop
       IN  op.name \in SingleTargetOps =>
             \A T \in Targets \ {op.target} :
               /\ TaskOf(T)' = TaskOf(T)
               /\ TaskOf(T) # 0 =>
                    /\ task'[TaskOf(T)] = task[TaskOf(T)]
                    /\ wpc'[TaskOf(T)] = wpc[TaskOf(T)]
                    /\ wtarget'[TaskOf(T)] = wtarget[TaskOf(T)]]_vars

\* setScreenGif has returned success while the looping animation of key 8 is
\* running: both threads are live, each inside a frame write
C38_Witness ==
  /\ cpc = "return" /\ cop.name = "setScreenGif" /\ cop.ret
  /\ screen_animation # 0 /\ animations[8] # 0
  /\ wpc[screen_animation] = "tx" /\ InTransmit(screen_animation)
  /\ wpc[animations[8]] = "tx" /\ InTransmit(animations[8])
  /\ task[animations[8]].running /\ task[screen_animation].running

-----------------------------------------------------------------------------
(* Animations under fair scheduling (SpecAnimFair): every thread that can  *)
(* take a step eventually takes one; writes return and delays elapse       *)

\* the steps of the animation thread of slot s
WorkerStep(s) ==
  /\ \/ WorkerTop(s)
     \/ WorkerSleepAdvance(s)
     \/ TxGetFlags(s)
     \/ TxSetNonblock(s)
     \/ TxWritevPacket(s)
     \/ TxRestore(s)
  /\ UNCHANGED <<pktVars, monVars>>

\* the steps of the caller inside a call it has made
CallerStep ==
  /\ \/ StopJoined
     \/ StopAllNext
     \/ StopAllJoined
     \/ GifDecodeAndStart
     \/ GifStore
     \/ CallerReturn
  /\ UNCHANGED <<pktVars, monVars>>

\* the calls made here: GIFs of AnimFrames frames (or none) on key 0 and on
\* the screen, and the three stop calls
NextAnimFair ==
  \/ \E ok \in BOOLEAN : Initialize(ok, TRUE, TRUE) /\ UNCHANGED <<pktVars, monVars>>
  \/ \E l \in BOOLEAN, n \in {0, AnimFrames} :
       SetKeyGif(0, l, n) /\ UNCHANGED <<pktVars, monVars>>
  \/ \E l \in BOOLEAN, n \in {0, AnimFrames} :
       SetScreenGif(l, n) /\ UNCHANGED <<pktVars, monVars>>
  \/ StopKeyAnimation(0) /\ UNCHANGED <<pktVars, monVars>>
  \/ \E a \in BOOLEAN : StopScreenAnimation(a) /\ UNCHANGED <<pktVars, monVars>>
  \/ CallerStep
  \/ \E s \in Slots : WorkerStep(s)

SpecAnimFair ==
  /\ InitAnim
  /\ [][NextAnimFair]_vars
  /\ \A s \in Slots : WF_vars(WorkerStep(s))
  /\ WF_vars(CallerStep)

\* C39: under fair scheduling a stop request (run flag cleared, the caller
\* in the join) leads to the thread's exit and to the return of the call; a
\* thread of an animation without loop exits by itself; and no step sets the
\* run flag of a task again once it is clear.
C39_StopTerminates ==
  /\ \A s \in Slots :
       (Live(s) /\ ~task[s].running) ~> ~Live(s)
  /\ (cpc \in {"join", "all_join"}) ~> (cpc = "idle")
  /\ \A s \in Slots :
       (Live(s) /\ ~task[s].loop) ~> ~Live(s)
  /\ [][\A s \in Slots :
          (task[s] # NoTask /\ task'[s] # NoTask /\ ~task[s].running)
            => ~task'[s].running]_vars

\* stopKeyAnimation waits in the join for a looping animation whose thread
\* has seen the cleared flag and exited, while the thread of a two-frame
\* animation without loop has exited by itself
C39_Witness ==
  /\ cpc = "join" /\ cop.name = "stopKeyAnimation"
  /\ \E s \in Slots, u \in Slots :
       /\ s = TaskOf(cop.target)
       /\ task[s].loop /\ ~task[s].running /\ wpc[s] = "exited"
       /\ ~task[u].loop /\ task[u].nframes = 2 /\ task[u].current_frame = 2
       /\ wpc[u] = "exited"

=============================================================================
